---- MODULE Spec2Model ----
(***************************************************************************)
(* Annotation viewer (src/app/pdf_viewer.py, src/app/annotation_overlay.py) *)
(* and batch exporter (src/app/pdf_exporter.py, src/app/main.py).           *)
(*                                                                          *)
(* Numbers.  A fractional coordinate is kept as its numerator over the      *)
(* size of the displayed raster: x = n / PageW, y = n / PageH, so that the   *)
(* pixel position  x * w  of the code is the numerator itself.  A Text width *)
(* is kept as its numerator over WidthDen * PageW, which makes the lower     *)
(* clamp 0.02 of _apply_drag the integer PageW.  Lengths that the code gets  *)
(* from math.hypot are kept to whole pixels (ISqrt); comparisons of a hypot  *)
(* against a tolerance are made on the squares and are exact.               *)
(*                                                                          *)
(* The displayed raster (_raw_pixmap, _base_pixmap, the label's pixmap,      *)
(* _preview_pos, _hover_pos, cursors) is output only: the handlers' calls of *)
(* _rebuild_base_and_display / _update_display / _update_hover_cursor leave  *)
(* the modelled state unchanged.  A document of raster size PageW x PageH is *)
(* displayed throughout.                                                    *)
(***************************************************************************)
EXTENDS Integers, Sequences, FiniteSets, TLC

\* ------------------------------------------------------------------ bounds
PageW == 15
PageH == 45
PointerStep == 15
MaxAnns == 1
MaxStore == 2
NumPages == 2
FontLineH == 6
FontAdvance == 10
MaxTextLines == 3
MaxStudents == 3
MaxBakeAnns == 2
ExportScale == 19
FitzLineH == 12
FitzExtraH == 3
FitzAdvance == 30
MaxWords == 3
MaxWordLen == 2
MaxParas == 2
MaxWebAnns == 2
MaxTimers == 2
SessionStudents == 2
DprMax == 2

\* ------------------------------------------------------- program constants
DRAG_TOL == 20
ERASER_TOL == 20
WidthDen == 50
BASE_PAGE_HEIGHT == 842
TEXT_PAD == 3
RESIZE_HANDLE == 8
MIN_BOX_W == 20
HANDLE_SLACK == 4
ZOOM_INIT == 120
ZOOM_MIN == 50
ZOOM_MAX == 300
ZOOM_STEP == 20
TEXT_FONTSIZE == 9
MIN_INNER_W == 1

None == 0 - 1000000

TOOL_NONE == "none"
TOOL_CHECKMARK == "checkmark"
TOOL_CROSS == "cross"
TOOL_TEXT == "text"
TOOL_LINE == "line"
TOOL_ARROW == "arrow"
TOOL_CIRCLE == "circle"
TOOL_TILDE == "tilde"
TOOL_ERASER == "eraser"
TOOL_STAMP == "stamp"
TOOL_RECTCROSS == "rectcross"

TwoPointTools == {TOOL_LINE, TOOL_ARROW, TOOL_CIRCLE, TOOL_RECTCROSS}

\* The tools the modelled grader selects (keys of _KEY_TOOL_MAP).  Cross and
\* tilde share every branch of the viewer with checkmark, arrow with line.
KEY_TOOL_MAP ==
    {TOOL_CHECKMARK, TOOL_TEXT, TOOL_LINE, TOOL_CIRCLE, TOOL_ERASER,
     TOOL_STAMP, TOOL_RECTCROSS}

\* ----------------------------------------------------------------- numbers
Min(a, b) == IF a <= b THEN a ELSE b

Max(a, b) == IF a >= b THEN a ELSE b

\* floor of the square root
ISqrt(n) == CHOOSE r \in 0..(n + 1) : r * r <= n /\ (r + 1) * (r + 1) > n

\* round(num / den), num >= 0, den > 0
Round(num, den) == (2 * num + den) \div (2 * den)

\* math.hypot(a, b) <= tol
HypotLe(a, b, tol) == a * a + b * b <= tol * tol

\* Raw pointer positions of mouse events, in label pixels; the label has the
\* size of the raster, and a grabbed pointer also reports positions outside it.
RawXs == {k * PointerStep : k \in (0 - 1)..((PageW \div PointerStep) + 1)}

RawYs == {k * PointerStep : k \in (0 - 1)..((PageH \div PointerStep) + 1)}

\* A press reaches the label only at a position inside it.
PageXs == {px \in RawXs : 0 <= px /\ px <= PageW}

PageYs == {py \in RawYs : 0 <= py /\ py <= PageH}

\* Fault: an offset that is stored as computed, without clamping.
clUnclamped(v, den) == v

\* max(0.0, min(1.0, v)) on numerators over den
cl(v, den) == Max(0, Min(den, v))

\* ClickableLabel._frac
frac(px, py) == <<Max(0, Min(PageW, px)), Max(0, Min(PageH, py))>>

\* ------------------------------------------------------------- annotations
\* models.Annotation; a field that is None in the code is None here.
Annotation(page, type, x, y, text, x2, y2, width) ==
    [page |-> page, type |-> type, x |-> x, y |-> y,
     text |-> text, x2 |-> x2, y2 |-> y2, width |-> width]

\* A text is modelled by its number of lines, each line one word.
Texts == 1..MaxTextLines

\* QFontMetrics.horizontalAdvance of one line
FontHorizontalAdvance(text) == FontAdvance

\* QFontMetrics.boundingRect(inner, TextWordWrap, text).height()
FontWrapHeight(text, inner_w) == text * FontLineH

\* p = max(1, round(_TEXT_PAD * s)),  s = img_height / BASE_PAGE_HEIGHT
TextPad(img_height) == Max(1, Round(TEXT_PAD * img_height, BASE_PAGE_HEIGHT))

\* hs = max(4, round(_RESIZE_HANDLE * h / BASE_PAGE_HEIGHT))
HandleSize(img_height) ==
    Max(4, Round(RESIZE_HANDLE * img_height, BASE_PAGE_HEIGHT))

\* annotation_overlay._text_box_size: <<bw, bh>> in pixels
text_box_size(text, width, img_width, img_height) ==
    LET p == TextPad(img_height)
        bw == IF width # None
              THEN Max((width * img_width) \div (WidthDen * PageW), MIN_BOX_W)
              ELSE Max(FontHorizontalAdvance(text) + p * 2, MIN_BOX_W)
        bh == FontWrapHeight(text, bw - p * 2) + p * 2
    IN  <<bw, bh>>

NoRect == [x |-> None, y |-> None, w |-> None, h |-> None]

\* annotation_overlay.get_text_box_rect: QRect(cx, cy, bw, bh) or None
get_text_box_rect(ann, img_width, img_height) ==
    IF ann.type # "text" \/ ann.text = None
    THEN NoRect
    ELSE LET sz == text_box_size(ann.text, ann.width, img_width, img_height)
         IN  [x |-> ann.x, y |-> ann.y, w |-> sz[1], h |-> sz[2]]

\* QRect.right(), QRect.bottom(), QRect.contains(px, py)
RectRight(r) == r.x + r.w - 1

RectBottom(r) == r.y + r.h - 1

RectContains(r, px, py) ==
    /\ r.x <= px /\ px <= RectRight(r)
    /\ r.y <= py /\ py <= RectBottom(r)

\* annotation_overlay._pt_seg_dist(px, py, x1, y1, x2, y2) <= tol
pt_seg_dist_le(px, py, x1, y1, x2, y2, tol) ==
    LET dx  == x2 - x1
        dy  == y2 - y1
        num == (px - x1) * dx + (py - y1) * dy
        den == dx * dx + dy * dy
        d1  == (px - x1) * (px - x1) + (py - y1) * (py - y1)
    IN  IF dx = 0 /\ dy = 0 THEN HypotLe(px - x1, py - y1, tol)
        ELSE IF num <= 0 THEN HypotLe(px - x1, py - y1, tol)
        ELSE IF num >= den THEN HypotLe(px - x2, py - y2, tol)
        ELSE (d1 - tol * tol) * den <= num * num

\* abs(math.hypot(dx, dy) - radius) <= tol, radius a whole number of pixels
RingLe(dx, dy, radius, tol) ==
    /\ dx * dx + dy * dy <= (radius + tol) * (radius + tol)
    /\ \/ radius <= tol
       \/ dx * dx + dy * dy >= (radius - tol) * (radius - tol)

\* math.hypot((ann.x2 - ann.x) * w, (ann.y2 - ann.y) * h)
CircleRadius(ann) ==
    ISqrt((ann.x2 - ann.x) * (ann.x2 - ann.x)
          + (ann.y2 - ann.y) * (ann.y2 - ann.y))

\* ---------------------------------------------------------------- eraser
\* One iteration of the loop of find_annotation_at: does ann pass its test?
EraserHit(ann, px, py, img_width, img_height, tolerance_px) ==
    IF ann.type \in {"line", "arrow"} /\ ann.x2 # None /\ ann.y2 # None
    THEN pt_seg_dist_le(px, py, ann.x, ann.y, ann.x2, ann.y2, tolerance_px)
    ELSE IF ann.type = "circle" /\ ann.x2 # None /\ ann.y2 # None
    THEN RingLe(px - ann.x, py - ann.y, CircleRadius(ann), tolerance_px)
    ELSE IF ann.type = "text" /\ ann.text # None
    THEN RectContains(get_text_box_rect(ann, img_width, img_height), px, py)
    ELSE HypotLe(ann.x - px, ann.y - py, tolerance_px)

\* annotation_overlay.find_annotation_at: the loop from index i on.
\* Indices are 1-based here; 0 is the code's -1.
RECURSIVE FindAnnotationFrom(_, _, _, _, _)
FindAnnotationFrom(i, anns, page, px, py) ==
    IF i > Len(anns) THEN 0
    ELSE IF anns[i].page = page
            /\ EraserHit(anns[i], px, py, PageW, PageH, ERASER_TOL)
    THEN i
    ELSE FindAnnotationFrom(i + 1, anns, page, px, py)

find_annotation_at(anns, page, px, py) ==
    FindAnnotationFrom(1, anns, page, px, py)

\* ------------------------------------------------------------ drag target
\* _DragState
DragState(kind, index, start_fx, start_fy, orig_x, orig_y, orig_x2, orig_y2, orig_width) ==
    [kind |-> kind, index |-> index, start_fx |-> start_fx,
     start_fy |-> start_fy, orig_x |-> orig_x, orig_y |-> orig_y,
     orig_x2 |-> orig_x2, orig_y2 |-> orig_y2, orig_width |-> orig_width]

\* self._drag is None
NoDrag == DragState("none", 0, 0, 0, 0, 0, 0, 0, 0)

\* Fault: the corners of a rectcross are never tested.
RectCornerNone(ann, mx, my, tol) == "none"

\* The corner handle of a rectcross under (mx, my), first match in the
\* order tl, tr, bl, br; "none" when no corner is within tol.
RectCorner(ann, mx, my, tol) ==
    IF HypotLe(mx - ann.x, my - ann.y, tol) THEN "rectcross-tl"
    ELSE IF HypotLe(mx - ann.x2, my - ann.y, tol) THEN "rectcross-tr"
    ELSE IF HypotLe(mx - ann.x, my - ann.y2, tol) THEN "rectcross-bl"
    ELSE IF HypotLe(mx - ann.x2, my - ann.y2, tol) THEN "rectcross-br"
    ELSE "none"

\* One iteration of the loop of _find_drag_target for an annotation of the
\* current page: the _DragState it returns, or NoDrag when it goes on.
DragTargetOf(ann, i, fx, fy) ==
    LET w   == PageW
        h   == PageH
        tol == DRAG_TOL
        mx  == fx
        my  == fy
        two(kind) ==
            DragState(kind, i, fx, fy, ann.x, ann.y, ann.x2, ann.y2, 0)
    IN
    IF ann.type \in {"line", "arrow"} /\ ann.x2 # None THEN
        IF HypotLe(mx - ann.x, my - ann.y, tol) THEN two("line-start")
        ELSE IF HypotLe(mx - ann.x2, my - ann.y2, tol) THEN two("line-end")
        ELSE IF pt_seg_dist_le(mx, my, ann.x, ann.y, ann.x2, ann.y2, tol)
        THEN two("line-move")
        ELSE NoDrag
    ELSE IF ann.type = "circle" /\ ann.x2 # None THEN
        LET radius == CircleRadius(ann)
        IN  IF HypotLe(mx - ann.x, my - (ann.y + radius), tol)
            THEN two("circle-edge")
            ELSE IF RingLe(mx - ann.x, my - ann.y, radius, tol)
            THEN two("circle-move")
            ELSE NoDrag
    ELSE IF ann.type = "rectcross" /\ ann.x2 # None THEN
        LET corner == RectCorner(ann, mx, my, tol)
        IN  IF corner # "none" THEN two(corner)
            ELSE IF \/ pt_seg_dist_le(mx, my, ann.x, ann.y,
                                      ann.x2, ann.y2, tol)
                    \/ pt_seg_dist_le(mx, my, ann.x2, ann.y,
                                      ann.x, ann.y2, tol)
            THEN two("rectcross-move")
            ELSE NoDrag
    ELSE IF ann.type = "text" THEN
        LET rect == get_text_box_rect(ann, w, h)
            hs   == HandleSize(h)
        IN  IF rect = NoRect THEN NoDrag
            ELSE IF /\ RectRight(rect) - hs <= mx
                    /\ mx <= RectRight(rect) + HANDLE_SLACK
                    /\ RectBottom(rect) - hs <= my
                    /\ my <= RectBottom(rect) + HANDLE_SLACK
            THEN DragState("text-resize", i, fx, fy, ann.x, ann.y, 0, 0,
                           IF ann.width # None THEN ann.width
                           ELSE rect.w * WidthDen)
            ELSE IF RectContains(rect, mx, my)
            THEN DragState("point", i, fx, fy, ann.x, ann.y, 0, 0, 0)
            ELSE NoDrag
    ELSE IF HypotLe(ann.x - fx, ann.y - fy, tol)
         THEN DragState("point", i, fx, fy, ann.x, ann.y, 0, 0, 0)
         ELSE NoDrag

\* _find_drag_target: the loop "for i in range(len - 1, -1, -1)" from i down
RECURSIVE FindDragFrom(_, _, _, _, _)
FindDragFrom(i, anns, page, fx, fy) ==
    IF i < 1 THEN NoDrag
    ELSE IF anns[i].page = page /\ DragTargetOf(anns[i], i, fx, fy) # NoDrag
    THEN DragTargetOf(anns[i], i, fx, fy)
    ELSE FindDragFrom(i - 1, anns, page, fx, fy)

\* Fault: the Store searched from its first annotation on, so that the
\* bottommost hit wins.
RECURSIVE FindDragUp(_, _, _, _, _)
FindDragUp(i, anns, page, fx, fy) ==
    IF i > Len(anns) THEN NoDrag
    ELSE IF anns[i].page = page /\ DragTargetOf(anns[i], i, fx, fy) # NoDrag
    THEN DragTargetOf(anns[i], i, fx, fy)
    ELSE FindDragUp(i + 1, anns, page, fx, fy)

find_drag_target_forward(anns, page, fx, fy) ==
    FindDragUp(1, anns, page, fx, fy)

find_drag_target(anns, page, fx, fy) ==
    FindDragFrom(Len(anns), anns, page, fx, fy)

\* ------------------------------------------------------------- apply drag
\* Fault: the offset is taken from the handle's original position instead of
\* the press position, so the handle snaps to the pointer.
DragDeltaSnap(d, fx, fy) == <<fx - d.orig_x, fy - d.orig_y>>

\* _apply_drag: dx, dy = fx - d.start_fx, fy - d.start_fy
DragDelta(d, fx, fy) == <<fx - d.start_fx, fy - d.start_fy>>

\* Fault: the edge handle follows the pointer horizontally.
CircleEdgeX2Pointer(d, fx) == fx

\* _apply_drag, circle-edge: ann.x2 = d.orig_x
CircleEdgeX2(d, fx) == d.orig_x

\* The annotation that _apply_drag leaves at index d.index
DraggedAnnotation(ann, d, fx, fy) ==
    LET dx == DragDelta(d, fx, fy)[1]
        dy == DragDelta(d, fx, fy)[2]
    IN
    CASE d.kind \in {"point", "line-start", "rectcross-tl"} ->
           [ann EXCEPT !.x = cl(d.orig_x + dx, PageW),
                       !.y = cl(d.orig_y + dy, PageH)]
      [] d.kind \in {"line-end", "rectcross-br"} ->
           [ann EXCEPT !.x2 = cl(d.orig_x2 + dx, PageW),
                       !.y2 = cl(d.orig_y2 + dy, PageH)]
      [] d.kind \in {"line-move", "circle-move", "rectcross-move"} ->
           [ann EXCEPT !.x  = cl(d.orig_x + dx, PageW),
                       !.y  = cl(d.orig_y + dy, PageH),
                       !.x2 = cl(d.orig_x2 + dx, PageW),
                       !.y2 = cl(d.orig_y2 + dy, PageH)]
      [] d.kind = "circle-edge" ->
           LET radius_px == ISqrt((fx - d.orig_x) * (fx - d.orig_x)
                                  + (fy - d.orig_y) * (fy - d.orig_y))
           IN  [ann EXCEPT !.x2 = CircleEdgeX2(d, fx),
                           !.y2 = cl(d.orig_y + radius_px, PageH)]
      [] d.kind = "text-resize" ->
           [ann EXCEPT !.width =
               Max(PageW, Min(WidthDen * PageW, d.orig_width + dx * WidthDen))]
      [] d.kind = "rectcross-tr" ->
           [ann EXCEPT !.x2 = cl(d.orig_x2 + dx, PageW),
                       !.y  = cl(d.orig_y + dy, PageH)]
      [] d.kind = "rectcross-bl" ->
           [ann EXCEPT !.x  = cl(d.orig_x + dx, PageW),
                       !.y2 = cl(d.orig_y2 + dy, PageH)]
      [] OTHER -> ann

\* Fault: the drag is applied to every annotation of the Store.
apply_drag_everywhere(anns, d, fx, fy) ==
    IF d = NoDrag THEN anns
    ELSE [i \in 1..Len(anns) |-> DraggedAnnotation(anns[i], d, fx, fy)]

\* PDFViewerPanel._apply_drag: the Store after the call
apply_drag(anns, d, fx, fy) ==
    IF d = NoDrag THEN anns
    ELSE [anns EXCEPT ![d.index] = DraggedAnnotation(anns[d.index], d, fx, fy)]

\* ------------------------------------------------------------------ state
VARIABLES
    annotations,    \* PDFViewerPanel._annotations (the Store)
    current_page,   \* PDFViewerPanel._current_page
    active_tool,    \* PDFViewerPanel._active_tool
    line_start,     \* PDFViewerPanel._line_start: None or <<fx, fy>>
    drag,           \* PDFViewerPanel._drag: NoDrag or a DragState
    drag_moved,     \* PDFViewerPanel._drag_moved
    pan_origin,     \* PDFViewerPanel._pan_origin is not None
    inline_editor,  \* the open InlineTextEdit: NoEditor or [fx, fy, edit_idx]
    stamp_popup,    \* the open stamp popup: NoPopup or <<fx, fy>>
    button_down,    \* the left mouse button is held (Qt's press/release pairing)
    ev,             \* the handler that ran last: its event and what it emitted
    dragh,          \* the drag in progress or just released (DragHist)
    students,       \* MainWindow._students: per student, is the source PDF there
    debug,          \* GradingSettings.debug_mode
    template,       \* what format_map does with the export filename template
    pc,             \* position of MainWindow._export_annotated_pdfs
    student_i,      \* the loop's index i (1-based)
    save_k,         \* bake_annotations: position in "for garbage_level in (0, 4)"
    cancelled,      \* _export_annotated_pdfs: cancelled
    exported,       \* _export_annotated_pdfs: exported
    skipped,        \* _export_annotated_pdfs: skipped
    outcome,        \* per student: what the loop did with it
    attempts,       \* per student: the doc.save calls made, <<garbage, ok>> each
    doc,            \* bake_annotations: the pages of doc, as Page records
    caller_anns,    \* the caller's list anns passed to bake_annotations
    b_annotations,  \* bake_annotations: its local name annotations
    cover_inserted, \* bake_annotations: cover_inserted
    page_idx,       \* bake_annotations: page_idx of the page loop
    drawn,          \* the calls of drawing primitives made so far, in order
    bpc,            \* position of bake_annotations between open and save
    doc_page_count, \* PDFViewerPanel._doc.page_count, 0 when _doc is None
    pdf_path,       \* the student whose PDF _doc was opened from, 0 for none
    zoom,           \* PDFViewerPanel._zoom, in hundredths
    hi_dpr,         \* PDFViewerPanel._hi_dpr
    widget_dpr,     \* what the widget's devicePixelRatio() returns
    page_cache,     \* PDFViewerPanel._page_cache: page -> Raster or NoRaster
    cache_zoom,     \* PDFViewerPanel._cache_zoom
    cache_dpr,      \* PDFViewerPanel._cache_dpr
    prerender_timers, \* pending QTimer.singleShot(0, _prerender_adjacent)
    served,         \* the last _render_page: what it put into _raw_pixmap
    current_student, \* MainWindow._current_student, 0 for None
    saved,          \* per student: the contents of the annotations file
    measured,       \* the last call of _measure_text_box and its result
    web_store,      \* old web backend: per student, the stored annotations
    web_req,        \* old web backend: the last request served
    fcall,          \* a function called on its own: arguments and result
    web_grades      \* old web backend: grades.json and the requests in flight

vars == <<annotations, current_page, active_tool, line_start, drag,
          drag_moved, pan_origin, inline_editor, stamp_popup, button_down,
          ev, dragh, students, debug, template, pc, student_i, save_k,
          cancelled, exported, skipped, outcome, attempts, doc,
          caller_anns, b_annotations, cover_inserted, page_idx, drawn, bpc,
          doc_page_count, pdf_path, zoom, hi_dpr, widget_dpr, page_cache,
          cache_zoom, cache_dpr, prerender_timers, served, current_student,
          saved, measured, web_store, web_req, fcall, web_grades>>

\* The viewer's part and the exporter's part of the state
vvars == <<annotations, current_page, active_tool, line_start, drag,
           drag_moved, pan_origin, inline_editor, stamp_popup, button_down,
           ev, dragh>>

xvars == <<students, debug, template, pc, student_i, save_k, cancelled,
           exported, skipped, outcome, attempts>>

\* What an export reads and never writes
xfixed == <<students, debug, template>>

\* The part of bake_annotations between fitz.open and the save loop
bvars == <<doc, caller_anns, b_annotations, cover_inserted, page_idx, drawn,
           bpc>>

\* The viewer's open document, its zoom and its page-raster cache
cvars == <<doc_page_count, pdf_path, zoom, hi_dpr, widget_dpr, page_cache,
           cache_zoom, cache_dpr, prerender_timers, served>>

\* The session: the selected student and the persisted annotation lists
svars == <<current_student, saved>>

\* Functions and routes called on their own
pvars == <<measured, web_store, web_req, fcall, web_grades>>

\* The calls other than _measure_text_box and the annotation routes
fvars == <<fcall, web_grades>>

NoPoint == <<None, None>>

NoEditor == [fx |-> None, fy |-> None, edit_idx |-> None, width |-> None]

NoPopup == NoPoint

\* The handler that ran last: op names it, (fx, fy) is the position it was
\* given (kept for a press and for the moves and the release of a drag), and
\* emitted is the number of annotations_changed it emitted.
Ev(op, fx, fy, emitted) ==
    [op |-> op, fx |-> fx, fy |-> fy, emitted |-> emitted]

\* The drag in progress, or the one the last handler released: its handle
\* kind and index, the press position, the annotation as it was at the press,
\* whether a move event arrived since the press, and the number of
\* annotations_changed emitted since the press (0, 1, or 2 for "more").
DragHist(kind, index, fx, fy, ann, had_move, emits) ==
    [kind |-> kind, index |-> index, fx |-> fx, fy |-> fy, ann |-> ann,
     had_move |-> had_move, emits |-> emits]

NoAnnotation == Annotation(None, "none", None, None, None, None, None, None)

NoDragHist == DragHist("none", 0, None, None, NoAnnotation, FALSE, 0)

\* No export is running and no project is open.
ExportIdle ==
    /\ students = <<>>
    /\ debug = FALSE
    /\ template = "plain"
    /\ pc = "idle"
    /\ student_i = 0
    /\ save_k = 0
    /\ cancelled = FALSE
    /\ exported = 0
    /\ skipped = 0
    /\ outcome = <<>>
    /\ attempts = <<>>

\* The students of the project
StudentIds == 1..SessionStudents

\* _measure_text_box has not been called
NoCall == [text |-> <<>>, box_w |-> 0, p |-> 0, fontsize |-> 0,
           result |-> <<0, 0>>]

\* No request has been served
NoRequest == [op |-> "none", student |-> 0, id |-> "none"]

\* No function is being called on its own
NoFunction == [fn |-> "none"]

\* No POST /grades request is in flight and grades.json does not exist
NoGrades == [file |-> [complete |-> TRUE, grades |-> <<>>], handlers |-> <<>>]

NoFunctionCalls ==
    /\ fcall = NoFunction
    /\ web_grades = NoGrades

\* Neither _measure_text_box nor the web backend has been called.
NoCalls ==
    /\ measured = NoCall
    /\ web_store = [s \in StudentIds |-> <<>>]
    /\ web_req = NoRequest
    /\ NoFunctionCalls

\* bake_annotations is not running.
BakeIdle ==
    /\ doc = <<>>
    /\ caller_anns = <<>>
    /\ b_annotations = <<>>
    /\ cover_inserted = FALSE
    /\ page_idx = 0
    /\ drawn = <<>>
    /\ bpc = "idle"

\* The viewer's interaction state after construction (and _reset_interaction)
ViewerIdle ==
    /\ line_start = NoPoint
    /\ drag = NoDrag
    /\ drag_moved = FALSE
    /\ pan_origin = FALSE
    /\ inline_editor = NoEditor
    /\ stamp_popup = NoPopup
    /\ button_down = FALSE
    /\ ev = Ev("init", None, None, 0)
    /\ dragh = NoDragHist

\* ------------------------------------------------------ persisted records
\* save_annotations: an optional field is written when it is not None
\* Fault: an optional field is written when it is truthy.
PresentTruthy(v) == v # None /\ v # 0

Present(v) == v # None

RequiredKeys == {"page", "type", "x", "y"}

OptionalKeys == {"text", "x2", "y2", "width"}

\* save_annotations: the JSON object of one annotation
annotation_item(ann) ==
    LET opt == {k \in OptionalKeys : Present(ann[k])}
    IN  [k \in RequiredKeys \cup opt |-> ann[k]]

\* save_annotations: the JSON array written to <student_number>.json
save_annotations(anns) ==
    [i \in 1..Len(anns) |-> annotation_item(anns[i])]

\* dict.get: the value of a key, None when the key is absent
ItemGet(item, k) == IF k \in DOMAIN item THEN item[k] ELSE None

\* load_annotations: the Annotation built from one JSON object; the
\* dataclass constructor stores what it is given
annotation_of_item(item) ==
    Annotation(item["page"], item["type"], item["x"], item["y"],
               ItemGet(item, "text"), ItemGet(item, "x2"),
               ItemGet(item, "y2"), ItemGet(item, "width"))

\* load_annotations: the list built from the JSON array of a student's file
\* (an absent file reads as the empty array)
load_annotations(data) ==
    [i \in 1..Len(data) |-> annotation_of_item(data[i])]

\* ------------------------------------------------------- page-raster cache
\* A pixmap rasterized by fitz: of which document and page, at which zoom
\* (in hundredths) and which device pixel ratio
Raster(path, page, z, dpr) ==
    [path |-> path, page |-> page, zoom |-> z, dpr |-> dpr]

NoRaster == Raster(0, None, 0, 0)

\* What _render_page put on display: the pixmap, whether it came out of the
\* cache, and the zoom and pixel density in force at that moment
Served(hit, raw, z, dpr) == [hit |-> hit, raw |-> raw, zoom |-> z, dpr |-> dpr]

\* _show_placeholder: no pixmap on display
NoServed == Served(FALSE, NoRaster, 0, 0)

\* PDFViewerPanel._invalidate_cache
EmptyCache == [p \in 0..(NumPages - 1) |-> NoRaster]

\* dpr = self.devicePixelRatio() if self._hi_dpr else 1.0
EffectiveDpr(hi, wdpr) == IF hi THEN wdpr ELSE 1

\* PDFViewerPanel._render_page_pixmap
render_page_pixmap(path, page, z, dpr) == Raster(path, page, z, dpr)

\* QTimer.singleShot(0, self._prerender_adjacent): one more pending call
SingleShot(timers) == Min(timers + 1, MaxTimers)

\* _render_page on a cache miss: the other cached pages stay
StaleKept(cache) == cache

\* PDFViewerPanel._render_page on the fields the handler has reached;
\* ok: the rasterizer does not raise
render_page(pages, path, page, z, dpr, cache, cz, cd, timers, ok) ==
    LET same == [page_cache |-> cache, cache_zoom |-> cz, cache_dpr |-> cd]
        raw  == render_page_pixmap(path, page, z, dpr)
    IN  IF pages = 0
        THEN same @@ [prerender_timers |-> timers, served |-> NoServed]
        ELSE IF cache[page] # NoRaster /\ cz = z /\ cd = dpr
        THEN same @@ [prerender_timers |-> SingleShot(timers),
                      served |-> Served(TRUE, cache[page], z, dpr)]
        ELSE IF ~ok
        THEN same @@ [prerender_timers |-> timers, served |-> NoServed]
        ELSE [page_cache |-> [StaleKept(cache) EXCEPT ![page] = raw],
              cache_zoom |-> z, cache_dpr |-> dpr,
              prerender_timers |-> SingleShot(timers),
              served |-> Served(FALSE, raw, z, dpr)]

\* The cache fields and the display take the outcome of a _render_page
Rendered(r) ==
    /\ page_cache' = r.page_cache
    /\ cache_zoom' = r.cache_zoom
    /\ cache_dpr' = r.cache_dpr
    /\ prerender_timers' = r.prerender_timers
    /\ served' = r.served

\* PDFViewerPanel.__init__: no document, zoom 1.2, an empty cache
NoDocument ==
    /\ doc_page_count = 0
    /\ pdf_path = 0
    /\ zoom = ZOOM_INIT
    /\ hi_dpr = TRUE
    /\ page_cache = EmptyCache
    /\ cache_zoom = 0
    /\ cache_dpr = 0
    /\ prerender_timers = 0
    /\ served = NoServed

\* After load_pdf of the first student's PDF on a screen of pixel ratio 1
DocLoaded ==
    /\ doc_page_count = NumPages
    /\ pdf_path = 1
    /\ zoom = ZOOM_INIT
    /\ hi_dpr = TRUE
    /\ widget_dpr = 1
    /\ page_cache = [EmptyCache EXCEPT ![0] = Raster(1, 0, ZOOM_INIT, 1)]
    /\ cache_zoom = ZOOM_INIT
    /\ cache_dpr = 1
    /\ prerender_timers = 1
    /\ served = Served(FALSE, Raster(1, 0, ZOOM_INIT, 1), ZOOM_INIT, 1)

\* ------------------------------------------------------------- the session
\* The first student is selected and no student has an annotations file.
SessionIdle ==
    /\ current_student = 1
    /\ saved = [s \in StudentIds |-> <<>>]

\* MainWindow._on_annotations_changed: what the student's file holds after
\* `emitted` emissions of annotations_changed with the Store at `anns`
SavedAfter(emitted, anns) ==
    IF emitted > 0 /\ current_student # 0
    THEN [saved EXCEPT ![current_student] = save_annotations(anns)]
    ELSE saved

\* The slot connected to annotations_changed runs inside the emitting handler
Persist ==
    /\ saved' = SavedAfter(ev'.emitted, annotations')
    /\ current_student' = current_student

\* State after construction and load_pdf of a document with no annotations.
Init ==
    /\ BakeIdle
    /\ ExportIdle
    /\ ViewerIdle
    /\ NoCalls
    /\ DocLoaded
    /\ SessionIdle
    /\ annotations = <<>>
    /\ current_page = 0
    /\ active_tool = TOOL_NONE

\* Keyboard focus is in a text-input widget (the inline editor or the stamp
\* popup's filter): the shortcut filter returns False and the page gets no
\* press before that widget has committed or cancelled.
TextFocus == inline_editor # NoEditor \/ stamp_popup # NoPopup

\* The grader's hands: a shortcut key is pressed when no text-input widget
\* has the focus and the mouse button is not held.
KeysFree == ~TextFocus /\ ~button_down

\* ------------------------------------------------------------ tool changes
\* Fault: a tool change that keeps the pending start point.
LineStartKept(tool) == line_start

\* PDFViewerPanel.set_active_tool: the new _line_start
LineStartAfterSetTool(tool) ==
    IF tool # active_tool THEN NoPoint ELSE line_start

\* PDFViewerPanel.set_active_tool: the new stamp popup
PopupAfterSetTool(tool) ==
    IF tool # active_tool THEN NoPopup ELSE stamp_popup

\* _ToolShortcutFilter.eventFilter, tool toggles -> set_active_tool(new)
KeyTool(tool) ==
    /\ UNCHANGED <<pvars, xvars, bvars, cvars>>
    /\ KeysFree
    /\ LET new == IF active_tool = tool THEN TOOL_NONE ELSE tool
       IN  /\ line_start' = LineStartAfterSetTool(new)
           /\ stamp_popup' = PopupAfterSetTool(new)
           /\ active_tool' = new
    /\ ev' = Ev("key", None, None, 0)
    /\ dragh' = NoDragHist
    /\ UNCHANGED <<annotations, current_page, drag, drag_moved, pan_origin,
                   inline_editor, button_down>>

\* _ToolShortcutFilter.eventFilter, Escape: cancel the pending placement,
\* else deselect_tool()
KeyEscape ==
    /\ UNCHANGED <<pvars, xvars, bvars, cvars>>
    /\ KeysFree
    /\ IF line_start # NoPoint
       THEN /\ line_start' = NoPoint
            /\ UNCHANGED <<active_tool, stamp_popup>>
       ELSE /\ line_start' = LineStartAfterSetTool(TOOL_NONE)
            /\ stamp_popup' = PopupAfterSetTool(TOOL_NONE)
            /\ active_tool' = TOOL_NONE
    /\ ev' = Ev("escape", None, None, 0)
    /\ dragh' = NoDragHist
    /\ UNCHANGED <<annotations, current_page, drag, drag_moved, pan_origin,
                   inline_editor, button_down>>

\* ------------------------------------------------------------- placement
INLINE_EDITOR_MIN_W == 120
INLINE_EDITOR_WIDTH == 200

EmptyText == 0

\* Remove the element at index i (list.pop(i))
Pop(seq, i) == [j \in 1..(Len(seq) - 1) |-> IF j < i THEN seq[j] ELSE seq[j + 1]]

\* PDFViewerPanel._find_text_at: the loop from index i on (0 is the code's -1)
RECURSIVE FindTextFrom(_, _, _, _, _)
FindTextFrom(i, anns, page, fx, fy) ==
    IF i > Len(anns) THEN 0
    ELSE IF /\ anns[i].page = page
            /\ anns[i].type = "text"
            /\ get_text_box_rect(anns[i], PageW, PageH) # NoRect
            /\ RectContains(get_text_box_rect(anns[i], PageW, PageH), fx, fy)
    THEN i
    ELSE FindTextFrom(i + 1, anns, page, fx, fy)

find_text_at(anns, page, fx, fy) == FindTextFrom(1, anns, page, fx, fy)

\* _start_text_edit: the editor it opens (position, edited index, and the
\* width in pixels it is resized to)
start_text_edit(anns, fx, fy, edit_idx) ==
    [fx |-> fx, fy |-> fy, edit_idx |-> edit_idx,
     width |-> IF edit_idx > 0
               THEN Max(get_text_box_rect(anns[edit_idx], PageW, PageH).w,
                        INLINE_EDITOR_MIN_W)
               ELSE INLINE_EDITOR_WIDTH]

\* _handle_click, two-point tools, second click: the second point stored.
\* A circle's edge point is normalised to lie below the centre.
SecondPoint(tool, x1, y1, fx, fy) ==
    IF tool = TOOL_CIRCLE
    THEN LET radius_px == ISqrt((fx - x1) * (fx - x1) + (fy - y1) * (fy - y1))
         IN  <<x1, y1 + radius_px>>
    ELSE <<fx, fy>>

\* The index find_annotation_at gives the eraser
EraserTarget(anns, page, fx, fy) == find_annotation_at(anns, page, fx, fy)

\* What a click leaves: Store, tool, pending start point, editor, popup, and
\* the number of annotations_changed emitted.
Click(anns, tool, ls, ed, pop, emitted) ==
    [annotations |-> anns, active_tool |-> tool, line_start |-> ls,
     inline_editor |-> ed, stamp_popup |-> pop, emitted |-> emitted]

\* PDFViewerPanel._handle_click
handle_click(fx, fy) ==
    LET same == Click(annotations, active_tool, line_start, inline_editor,
                      stamp_popup, 0)
        \* append / pop, _rebuild_base_and_display, emit, deselect_tool()
        done(anns) == Click(anns, TOOL_NONE, NoPoint, inline_editor, NoPopup, 1)
    IN
    IF active_tool = TOOL_NONE THEN same
    ELSE IF active_tool = TOOL_ERASER THEN
        LET idx == EraserTarget(annotations, current_page, fx, fy)
        IN  IF idx > 0 THEN done(Pop(annotations, idx)) ELSE same
    ELSE IF active_tool = TOOL_TEXT THEN
        LET idx == find_text_at(annotations, current_page, fx, fy)
        IN  [same EXCEPT !.inline_editor =
                IF idx > 0
                THEN start_text_edit(annotations, annotations[idx].x,
                                     annotations[idx].y, idx)
                ELSE start_text_edit(annotations, fx, fy, 0)]
    ELSE IF active_tool \in TwoPointTools THEN
        IF line_start = NoPoint
        THEN [same EXCEPT !.line_start = <<fx, fy>>]
        ELSE LET x1 == line_start[1]
                 y1 == line_start[2]
                 p2 == SecondPoint(active_tool, x1, y1, fx, fy)
             IN  done(Append(annotations,
                        Annotation(current_page, active_tool, x1, y1, None,
                                   p2[1], p2[2], None)))
    ELSE IF active_tool = TOOL_STAMP
    THEN [same EXCEPT !.stamp_popup = <<fx, fy>>]
    ELSE done(Append(annotations,
                Annotation(current_page, active_tool, fx, fy, None,
                           None, None, None)))

\* The modelled Store grows to MaxAnns annotations.
StoreFits(anns) == Len(anns) <= Len(annotations) \/ Len(anns) <= MaxAnns

\* ---------------------------------------------------------- mouse handlers
\* _on_page_moved: annotations_changed emitted by a move event
MovedEmits(d) == 0

\* Fault: a release that never signals.
ReleasedEmitsNone(d, moved) == 0

\* _on_page_released: annotations_changed emitted by a release
ReleasedEmits(d, moved) == IF d # NoDrag /\ moved THEN 1 ELSE 0

\* Count of emissions of one drag, kept to 0, 1, "more"
CountUp(n, k) == Min(2, n + k)

\* ClickableLabel.mousePressEvent -> PDFViewerPanel._on_page_pressed
OnPagePressed(rx, ry, pan) ==
    /\ UNCHANGED <<pvars, xvars, bvars, cvars>>
    /\ ~button_down
    /\ ~TextFocus
    /\ button_down' = TRUE
    /\ drag_moved' = FALSE
    /\ UNCHANGED current_page
    /\ LET fx == frac(rx, ry)[1]
           fy == frac(rx, ry)[2]
           target == find_drag_target(annotations, current_page, fx, fy)
           click == handle_click(fx, fy)
       IN
       IF pan THEN
           /\ pan_origin' = TRUE
           /\ ev' = Ev("pressed-pan", None, None, 0)
           /\ dragh' = NoDragHist
           /\ UNCHANGED <<annotations, active_tool, line_start, drag,
                          inline_editor, stamp_popup>>
       ELSE IF active_tool = TOOL_NONE /\ target # NoDrag THEN
           /\ drag' = target
           /\ ev' = Ev("pressed", fx, fy, 0)
           /\ dragh' = DragHist(target.kind, target.index, fx, fy,
                               annotations[target.index], FALSE, 0)
           /\ UNCHANGED <<annotations, active_tool, line_start, pan_origin,
                          inline_editor, stamp_popup>>
       ELSE
           /\ StoreFits(click.annotations)
           /\ annotations' = click.annotations
           /\ active_tool' = click.active_tool
           /\ line_start' = click.line_start
           /\ inline_editor' = click.inline_editor
           /\ stamp_popup' = click.stamp_popup
           /\ ev' = Ev("pressed", fx, fy, click.emitted)
           /\ dragh' = NoDragHist
           /\ UNCHANGED <<drag, pan_origin>>

\* ClickableLabel.mouseMoveEvent -> PDFViewerPanel._on_page_moved, for the
\* moves made while the button is held; a hover move only changes the
\* displayed preview and the cursor.
OnPageMoved(rx, ry) ==
    /\ UNCHANGED <<pvars, xvars, bvars, cvars>>
    /\ button_down
    /\ LET fx == frac(rx, ry)[1]
           fy == frac(rx, ry)[2]
       IN
       IF pan_origin THEN
           /\ ev' = Ev("moved", None, None, 0)
           /\ UNCHANGED <<annotations, drag_moved, dragh>>
       ELSE IF drag # NoDrag THEN
           /\ drag_moved' = TRUE
           /\ annotations' = apply_drag(annotations, drag, fx, fy)
           /\ ev' = Ev("moved", fx, fy, MovedEmits(drag))
           /\ dragh' = [dragh EXCEPT !.had_move = TRUE,
                           !.emits = CountUp(dragh.emits, MovedEmits(drag))]
       ELSE
           /\ ev' = Ev("moved", None, None, 0)
           /\ UNCHANGED <<annotations, drag_moved, dragh>>
    /\ UNCHANGED <<current_page, active_tool, line_start, drag, pan_origin,
                   inline_editor, stamp_popup, button_down>>

\* ClickableLabel.mouseReleaseEvent -> PDFViewerPanel._on_page_released
OnPageReleased(rx, ry) ==
    /\ UNCHANGED <<pvars, xvars, bvars, cvars>>
    /\ button_down
    /\ button_down' = FALSE
    /\ LET fx == frac(rx, ry)[1]
           fy == frac(rx, ry)[2]
       IN
       IF pan_origin THEN
           /\ pan_origin' = FALSE
           /\ ev' = Ev("released", None, None, 0)
           /\ dragh' = NoDragHist
           /\ UNCHANGED <<annotations, drag>>
       ELSE IF drag # NoDrag THEN
           /\ annotations' = apply_drag(annotations, drag, fx, fy)
           /\ drag' = NoDrag
           /\ ev' = Ev("released", fx, fy,
                       ReleasedEmits(drag, drag_moved))
           /\ dragh' = [dragh EXCEPT !.emits =
                           CountUp(@, ReleasedEmits(drag, drag_moved))]
           /\ UNCHANGED pan_origin
       ELSE
           /\ ev' = Ev("released", None, None, 0)
           /\ dragh' = NoDragHist
           /\ UNCHANGED <<annotations, drag, pan_origin>>
    /\ UNCHANGED <<current_page, active_tool, line_start, drag_moved,
                   inline_editor, stamp_popup>>

\* ------------------------------------------------------ editor and popup
\* _start_text_edit._commit (Ctrl+Enter, or focus-out with text)
EditorCommit(text) ==
    /\ UNCHANGED <<pvars, xvars, bvars, cvars>>
    /\ inline_editor # NoEditor
    /\ LET ed == inline_editor
           width_frac == ed.width * WidthDen
           anns == IF text = EmptyText THEN annotations
                   ELSE IF ed.edit_idx > 0
                   THEN [annotations EXCEPT ![ed.edit_idx].text = text,
                                            ![ed.edit_idx].width = width_frac]
                   ELSE Append(annotations,
                               Annotation(current_page, "text", ed.fx, ed.fy,
                                          text, None, None, width_frac))
       IN  /\ StoreFits(anns)
           /\ annotations' = anns
           /\ ev' = Ev("commit", None, None,
                       IF text = EmptyText THEN 0 ELSE 1)
    /\ inline_editor' = NoEditor
    /\ active_tool' = TOOL_NONE
    /\ line_start' = LineStartAfterSetTool(TOOL_NONE)
    /\ stamp_popup' = PopupAfterSetTool(TOOL_NONE)
    /\ dragh' = NoDragHist
    /\ UNCHANGED <<current_page, drag, drag_moved, pan_origin, button_down>>

\* _start_text_edit._cancel (Escape in the editor, or focus-out when empty)
EditorCancel ==
    /\ UNCHANGED <<pvars, xvars, bvars, cvars>>
    /\ inline_editor # NoEditor
    /\ inline_editor' = NoEditor
    /\ ev' = Ev("cancel", None, None, 0)
    /\ dragh' = NoDragHist
    /\ UNCHANGED <<annotations, current_page, active_tool, line_start, drag,
                   drag_moved, pan_origin, stamp_popup, button_down>>

\* _show_stamp_popup._on_pick
StampPick(text) ==
    /\ UNCHANGED <<pvars, xvars, bvars, cvars>>
    /\ stamp_popup # NoPopup
    /\ Len(annotations) < MaxAnns
    /\ annotations' = Append(annotations,
                             Annotation(current_page, "text", stamp_popup[1],
                                        stamp_popup[2], text, None, None, None))
    /\ stamp_popup' = NoPopup
    /\ active_tool' = TOOL_NONE
    /\ line_start' = LineStartAfterSetTool(TOOL_NONE)
    /\ ev' = Ev("pick", None, None, 1)
    /\ dragh' = NoDragHist
    /\ UNCHANGED <<current_page, drag, drag_moved, pan_origin, inline_editor,
                   button_down>>

\* _show_stamp_popup._filter_key_press / _list_key_press, Escape
StampEscape ==
    /\ UNCHANGED <<pvars, xvars, bvars, cvars>>
    /\ stamp_popup # NoPopup
    /\ stamp_popup' = NoPopup
    /\ ev' = Ev("popup-escape", None, None, 0)
    /\ dragh' = NoDragHist
    /\ UNCHANGED <<annotations, current_page, active_tool, line_start, drag,
                   drag_moved, pan_origin, inline_editor, button_down>>

\* ------------------------------------------------- navigation, zoom, cache
\* PDFViewerPanel._reset_interaction: the pending start point, the drag and
\* the inline editor go; _drag_moved, the pan and the stamp popup stay
ResetInteraction ==
    /\ line_start' = NoPoint
    /\ drag' = NoDrag
    /\ inline_editor' = NoEditor
    /\ UNCHANGED <<drag_moved, pan_origin, stamp_popup>>

\* prev_page / next_page to page `page`, then _reset_interaction and
\* _render_page; the handler emits nothing
GoToPage(page, ok) ==
    /\ UNCHANGED <<pvars, xvars, bvars>>
    /\ ~TextFocus
    /\ doc_page_count > 0
    /\ current_page' = page
    /\ ResetInteraction
    /\ Rendered(render_page(doc_page_count, pdf_path, page, zoom,
                            EffectiveDpr(hi_dpr, widget_dpr), page_cache,
                            cache_zoom, cache_dpr, prerender_timers, ok))
    /\ ev' = Ev("page", None, None, 0)
    /\ dragh' = NoDragHist
    /\ UNCHANGED <<annotations, active_tool, button_down, doc_page_count,
                   pdf_path, zoom, hi_dpr, widget_dpr>>

\* PDFViewerPanel.prev_page (Alt+Left or the toolbar button)
PrevPage(ok) ==
    /\ current_page > 0
    /\ GoToPage(current_page - 1, ok)

\* PDFViewerPanel.next_page (Alt+Right or the toolbar button)
NextPage(ok) ==
    /\ current_page < doc_page_count - 1
    /\ GoToPage(current_page + 1, ok)

\* new_zoom = max(0.5, min(3.0, new_zoom))
ClampZoom(new_zoom) == Max(ZOOM_MIN, Min(ZOOM_MAX, new_zoom))

\* _apply_zoom: self._invalidate_cache()
ZoomInvalidates(cache) == EmptyCache

\* PDFViewerPanel._apply_zoom(new_zoom), called by _zoom_in, _zoom_out and
\* the wheel and pinch gestures with the zoom they computed
ApplyZoom(requested, ok) ==
    /\ UNCHANGED <<pvars, xvars, bvars, vvars>>
    /\ LET new_zoom == ClampZoom(requested)
       IN  IF new_zoom # zoom
           THEN /\ zoom' = new_zoom
                /\ Rendered(render_page(doc_page_count, pdf_path,
                       current_page, new_zoom,
                       EffectiveDpr(hi_dpr, widget_dpr),
                       ZoomInvalidates(page_cache), cache_zoom, cache_dpr,
                       prerender_timers, ok))
           ELSE UNCHANGED <<zoom, page_cache, cache_zoom, cache_dpr,
                            prerender_timers, served>>
    /\ UNCHANGED <<doc_page_count, pdf_path, hi_dpr, widget_dpr>>

\* PDFViewerPanel.set_hi_dpr(enabled), from the settings dialog
SetHiDpr(enabled, ok) ==
    /\ UNCHANGED <<pvars, xvars, bvars, vvars>>
    /\ IF enabled # hi_dpr
       THEN /\ hi_dpr' = enabled
            /\ IF doc_page_count > 0
               THEN Rendered(render_page(doc_page_count, pdf_path,
                        current_page, zoom,
                        EffectiveDpr(enabled, widget_dpr), EmptyCache,
                        cache_zoom, cache_dpr, prerender_timers, ok))
               ELSE /\ page_cache' = EmptyCache
                    /\ UNCHANGED <<cache_zoom, cache_dpr, prerender_timers,
                                   served>>
       ELSE UNCHANGED <<hi_dpr, page_cache, cache_zoom, cache_dpr,
                        prerender_timers, served>>
    /\ UNCHANGED <<doc_page_count, pdf_path, zoom, widget_dpr>>

\* The window moves to a screen of another pixel ratio: devicePixelRatio()
\* returns the new value from now on; the panel has no handler for it
ScreenChanged(dpr) ==
    /\ UNCHANGED <<pvars, xvars, bvars, vvars>>
    /\ dpr # widget_dpr
    /\ widget_dpr' = dpr
    /\ UNCHANGED <<doc_page_count, pdf_path, zoom, hi_dpr, page_cache,
                   cache_zoom, cache_dpr, prerender_timers, served>>

\* _prerender_adjacent: the cache after the stamp check
PrerenderBase(z, dpr) ==
    IF cache_zoom # z \/ cache_dpr # dpr THEN EmptyCache ELSE page_cache

\* _prerender_adjacent: page idx is rendered into the cache when it is a
\* neighbour of the current page, exists, is not cached and renders
PrerenderPage(base, idx, z, dpr, ok) ==
    IF /\ idx \in {current_page - 1, current_page + 1}
       /\ 0 <= idx /\ idx < doc_page_count
       /\ base[idx] = NoRaster
       /\ ok
    THEN render_page_pixmap(pdf_path, idx, z, dpr)
    ELSE base[idx]

\* PDFViewerPanel._prerender_adjacent, run by a pending single-shot timer
PrerenderAdjacent(ok) ==
    /\ UNCHANGED <<pvars, xvars, bvars, vvars>>
    /\ prerender_timers > 0
    /\ prerender_timers' = prerender_timers - 1
    /\ IF doc_page_count = 0
       THEN UNCHANGED <<page_cache, cache_zoom, cache_dpr>>
       ELSE LET dpr  == EffectiveDpr(hi_dpr, widget_dpr)
                base == PrerenderBase(zoom, dpr)
            IN  /\ cache_zoom' = zoom
                /\ cache_dpr' = dpr
                /\ page_cache' = [idx \in 0..(NumPages - 1) |->
                                     PrerenderPage(base, idx, zoom, dpr, ok)]
    /\ UNCHANGED <<doc_page_count, pdf_path, zoom, hi_dpr, widget_dpr,
                   served>>

\* Fault: load_pdf keeps the rasters of the document it closes.
LoadKeepsCache(cache) == cache

\* load_pdf: self._invalidate_cache()
LoadInvalidates(cache) == EmptyCache

\* Fault: load_pdf appends the loaded list to the Store.
LoadedMerged(old, loaded) == old \o loaded

\* load_pdf: self._annotations = annotations
Loaded(old, loaded) == loaded

\* PDFViewerPanel.load_pdf(path of student s, loaded); opens: the file
\* exists and fitz opens it with at least one page; ok: the page renders
load_pdf(s, loaded, opens, ok) ==
    /\ annotations' = Loaded(annotations, loaded)
    /\ current_page' = 0
    /\ line_start' = NoPoint
    /\ drag' = NoDrag
    /\ inline_editor' = NoEditor
    /\ stamp_popup' = NoPopup
    /\ doc_page_count' = IF opens THEN NumPages ELSE 0
    /\ pdf_path' = IF opens THEN s ELSE 0
    /\ Rendered(render_page(IF opens THEN NumPages ELSE 0, s, 0, zoom,
                            EffectiveDpr(hi_dpr, widget_dpr),
                            LoadInvalidates(page_cache),
                            cache_zoom, cache_dpr, prerender_timers, ok))
    /\ UNCHANGED <<active_tool, drag_moved, pan_origin, button_down, zoom,
                   hi_dpr, widget_dpr>>

\* MainWindow._select_student(s): the grading panel's list, or
\* Shift+Alt+Left/Right through the shortcut filter
SelectStudent(s, opens, ok) ==
    /\ UNCHANGED <<pvars, xvars, bvars>>
    /\ ~TextFocus
    /\ s # current_student
    /\ current_student' = s
    /\ load_pdf(s, load_annotations(saved[s]), opens, ok)
    /\ ev' = Ev("student", None, None, 0)
    /\ dragh' = NoDragHist
    /\ saved' = saved

\* MainWindow._on_annotations_changed on its own: the Store is written to the
\* current student's file
AnnotationsChanged ==
    /\ UNCHANGED <<pvars, xvars, bvars, cvars, vvars>>
    /\ current_student # 0
    /\ saved' = [saved EXCEPT ![current_student] = save_annotations(annotations)]
    /\ current_student' = current_student

\* The viewer panel on its own: its handlers without the slot that
\* MainWindow connects to annotations_changed (emissions are counted in ev)
Next ==
    \/ \E tool \in KEY_TOOL_MAP : KeyTool(tool) /\ UNCHANGED svars
    \/ KeyEscape /\ UNCHANGED svars
    \/ \E rx \in PageXs, ry \in PageYs, pan \in BOOLEAN :
           OnPagePressed(rx, ry, pan) /\ UNCHANGED svars
    \/ \E rx \in RawXs, ry \in RawYs : OnPageMoved(rx, ry) /\ UNCHANGED svars
    \/ \E rx \in RawXs, ry \in RawYs : OnPageReleased(rx, ry) /\ UNCHANGED svars
    \/ \E text \in Texts \cup {EmptyText} : EditorCommit(text) /\ UNCHANGED svars
    \/ EditorCancel /\ UNCHANGED svars
    \/ \E text \in Texts : StampPick(text) /\ UNCHANGED svars
    \/ StampEscape /\ UNCHANGED svars

Spec == Init /\ [][Next]_vars

\* ------------------------------------------------ hit tests on given Stores
\* Annotations of each kind on one page, overlapping one another near the
\* page's top-left corner.
Shapes(page) ==
    {Annotation(page, "checkmark", 0, 0, None, None, None, None),
     Annotation(page, "checkmark", PageW, PointerStep, None, None, None, None),
     Annotation(page, "line", 0, 0, None, 0, PageH, None),
     Annotation(page, "circle", 0, PointerStep, None, 0, 2 * PointerStep, None),
     Annotation(page, "rectcross", 0, 0, None, PageW, PageH, None),
     Annotation(page, "text", 0, 0, MaxTextLines, None, None, None)}

SampleAnnotations == UNION {Shapes(page) : page \in 0..(NumPages - 1)}

\* load_pdf + set_annotations of a Store of up to MaxStore annotations, some
\* page of the document displayed, no tool or the eraser selected.
InitHit ==
    /\ BakeIdle
    /\ ExportIdle
    /\ ViewerIdle
    /\ NoCalls
    /\ DocLoaded
    /\ SessionIdle
    /\ annotations \in UNION {[1..n -> SampleAnnotations] : n \in 0..MaxStore}
    /\ current_page \in 0..(NumPages - 1)
    /\ active_tool \in {TOOL_NONE, TOOL_ERASER}

NextHit ==
    \E rx \in PageXs, ry \in PageYs, pan \in BOOLEAN :
        OnPagePressed(rx, ry, pan) /\ UNCHANGED svars

SpecHit == InitHit /\ [][NextHit]_vars

\* ------------------------------------------------ drags on given Stores
\* An annotation of another page: no press on page 0 reaches it
Bystander == Annotation(1, "text", 0, 0, MaxTextLines, None, None, None)

DragStores ==
    UNION {{<<a, Bystander>>, <<Bystander, a>>} : a \in Shapes(0)}

\* load_pdf of a Store of two annotations, page 0 displayed, no tool
\* selected: a press on the annotation of page 0 starts a drag.
InitDrag ==
    /\ BakeIdle
    /\ ExportIdle
    /\ ViewerIdle
    /\ NoCalls
    /\ DocLoaded
    /\ SessionIdle
    /\ annotations \in DragStores
    /\ current_page = 0
    /\ active_tool = TOOL_NONE

NextDrag ==
    \/ \E rx \in PageXs, ry \in PageYs :
           OnPagePressed(rx, ry, FALSE) /\ UNCHANGED svars
    \/ \E rx \in RawXs, ry \in RawYs : OnPageMoved(rx, ry) /\ UNCHANGED svars
    \/ \E rx \in RawXs, ry \in RawYs : OnPageReleased(rx, ry) /\ UNCHANGED svars

SpecDrag == InitDrag /\ [][NextDrag]_vars

\* -------------------------------------------------- annotation files
\* Annotations of every kind as the program creates them: stamps, a text
\* with its natural width, an empty text of stored width, two-point shapes
RecordShapes ==
    {Annotation(0, "checkmark", 0, 0, None, None, None, None),
     Annotation(1, "cross", PageW, PageH, None, None, None, None),
     Annotation(0, "tilde", PageW, 0, None, None, None, None),
     Annotation(0, "text", 0, PageH, MaxTextLines, None, None, None),
     Annotation(1, "text", 0, 0, EmptyText, None, None, MIN_BOX_W * WidthDen),
     Annotation(0, "line", 0, 0, None, 0, PageH, None),
     Annotation(1, "arrow", PageW, PageH, None, 0, 0, None),
     Annotation(0, "circle", 0, PointerStep, None, 0, 2 * PointerStep, None),
     Annotation(0, "rectcross", 0, 0, None, PageW, PageH, None)}

\* JSON objects the program never writes, as found in a hand-edited file: an
\* unknown kind, a line without its end point, a stamp carrying a text
ForeignItems ==
    {[page |-> 0, type |-> "blob", x |-> 0, y |-> 0],
     [page |-> 0, type |-> "line", x |-> 0, y |-> 0],
     [page |-> 0, type |-> "checkmark", x |-> 0, y |-> 0, text |-> 1]}

\* The Stores the grader has built
RecordStores == UNION {[1..n -> RecordShapes] : n \in 0..MaxStore}

\* The contents of another student's annotations file
FileContents ==
    {save_annotations(L) : L \in RecordStores}
    \cup {<<item>> : item \in ForeignItems}

\* The first student is selected, the Store holds what the grader has placed
\* and the student's file holds its last save.
InitRecords ==
    /\ BakeIdle
    /\ ExportIdle
    /\ ViewerIdle
    /\ NoCalls
    /\ DocLoaded
    /\ annotations \in RecordStores
    /\ current_page = 0
    /\ active_tool = TOOL_NONE
    /\ current_student = 1
    /\ saved \in [StudentIds -> FileContents]
    /\ saved[1] = save_annotations(annotations)

NextRecords ==
    \/ \E s \in StudentIds, opens \in BOOLEAN : SelectStudent(s, opens, TRUE)
    \/ AnnotationsChanged

SpecRecords == InitRecords /\ [][NextRecords]_vars

\* ----------------------------------------- zoom, pixel density and the cache
\* The zooms a button, the wheel or a pinch asks _apply_zoom for: below the
\* minimum, the extremes, the initial zoom, one step up, above the maximum
ZoomRequests ==
    {ZOOM_MIN - ZOOM_STEP, ZOOM_MIN, ZOOM_INIT, ZOOM_INIT + ZOOM_STEP,
     ZOOM_MAX, ZOOM_MAX + ZOOM_STEP}

\* The device pixel ratios of the screens
Dprs == 1..DprMax

\* State after construction of the panel, before any student is selected
InitCache ==
    /\ BakeIdle
    /\ ExportIdle
    /\ ViewerIdle
    /\ NoCalls
    /\ annotations = <<>>
    /\ current_page = 0
    /\ active_tool = TOOL_NONE
    /\ NoDocument
    /\ widget_dpr \in Dprs
    /\ current_student = 0
    /\ saved = [s \in StudentIds |-> <<>>]

NextCache ==
    \/ \E s \in StudentIds, opens, ok \in BOOLEAN : SelectStudent(s, opens, ok)
    \/ \E ok \in BOOLEAN : PrevPage(ok) /\ UNCHANGED svars
    \/ \E ok \in BOOLEAN : NextPage(ok) /\ UNCHANGED svars
    \/ \E z \in ZoomRequests, ok \in BOOLEAN : ApplyZoom(z, ok) /\ UNCHANGED svars
    \/ \E enabled, ok \in BOOLEAN : SetHiDpr(enabled, ok) /\ UNCHANGED svars
    \/ \E dpr \in Dprs : ScreenChanged(dpr) /\ UNCHANGED svars
    \/ \E ok \in BOOLEAN : PrerenderAdjacent(ok) /\ UNCHANGED svars

SpecCache == InitCache /\ [][NextCache]_vars

\* ------------------------------------------- a grading session of students
\* The pointer stays in the top band of the page, where the stamps are
SessionYs == {py \in PageYs : py <= PointerStep}

SessionShapes == {Annotation(0, "checkmark", 0, 0, None, None, None, None)}

\* The annotation lists found in the students' files when the project opens
SessionStores == [1..MaxAnns -> SessionShapes]

\* The project is open, the first student is selected and their PDF and
\* annotations are loaded; no tool or the line tool is selected.
InitSession ==
    /\ BakeIdle
    /\ ExportIdle
    /\ ViewerIdle
    /\ NoCalls
    /\ DocLoaded
    /\ current_student = 1
    /\ saved \in [StudentIds -> {save_annotations(L) : L \in SessionStores}]
    /\ annotations = load_annotations(saved[1])
    /\ current_page = 0
    /\ active_tool \in {TOOL_NONE, TOOL_LINE}

\* The panel's handlers run with MainWindow's slot connected
NextSession ==
    \/ \E rx \in PageXs, ry \in SessionYs, pan \in BOOLEAN :
           OnPagePressed(rx, ry, pan) /\ Persist
    \/ \E rx \in PageXs, ry \in SessionYs : OnPageMoved(rx, ry) /\ Persist
    \/ \E rx \in PageXs, ry \in SessionYs : OnPageReleased(rx, ry) /\ Persist
    \/ PrevPage(TRUE) /\ Persist
    \/ NextPage(TRUE) /\ Persist
    \/ \E s \in StudentIds, opens \in BOOLEAN : SelectStudent(s, opens, TRUE)

SpecSession == InitSession /\ [][NextSession]_vars



\* ------------------------------------ a drag among the other operations
\* _ToolShortcutFilter.eventFilter -> set_active_tool(new) with the mouse
\* button held: the filter looks at the focus widget only, and
\* set_active_tool leaves _drag alone
KeyToolHeld(tool) ==
    /\ UNCHANGED <<pvars, xvars, bvars, cvars>>
    /\ ~TextFocus
    /\ button_down
    /\ LET new == IF active_tool = tool THEN TOOL_NONE ELSE tool
       IN  /\ line_start' = LineStartAfterSetTool(new)
           /\ stamp_popup' = PopupAfterSetTool(new)
           /\ active_tool' = new
    /\ ev' = Ev("key", None, None, 0)
    /\ UNCHANGED <<annotations, current_page, drag, drag_moved, pan_origin,
                   inline_editor, button_down, dragh>>

\* PDFViewerPanel.set_annotations: self._annotations = annotations, then the
\* display is rebuilt; _drag and every other field stay
SetAnnotations(anns) ==
    /\ UNCHANGED <<pvars, xvars, bvars, cvars>>
    /\ annotations' = anns
    /\ ev' = Ev("set", None, None, 0)
    /\ UNCHANGED <<current_page, active_tool, line_start, drag, drag_moved,
                   pan_origin, inline_editor, stamp_popup, button_down,
                   dragh>>

\* The pointer stays on the top edge of the page
TargetYs == {0}

\* The tools whose keys are pressed during a drag
HeldTools == {TOOL_CHECKMARK}

\* A Checkmark of page 0 next to the annotation of page 1, in both orders
TargetStores ==
    {L \in DragStores :
        \E i \in 1..Len(L) :
            L[i] = Annotation(0, "checkmark", 0, 0, None, None, None, None)}

\* Both students' files hold the Store; the first student's PDF is loaded on
\* page 0 with no tool selected.
InitTarget ==
    /\ BakeIdle
    /\ ExportIdle
    /\ ViewerIdle
    /\ NoCalls
    /\ DocLoaded
    /\ current_student = 1
    /\ annotations \in TargetStores
    /\ saved = [s \in StudentIds |-> save_annotations(annotations)]
    /\ current_page = 0
    /\ active_tool = TOOL_NONE

\* Mouse events of a drag interleaved with tool keys, page navigation, a
\* switch of student (load_pdf) and set_annotations
NextTarget ==
    \/ \E rx \in PageXs, ry \in TargetYs :
           OnPagePressed(rx, ry, FALSE) /\ UNCHANGED svars
    \/ \E rx \in PageXs, ry \in TargetYs :
           OnPageMoved(rx, ry) /\ UNCHANGED svars
    \/ \E rx \in PageXs, ry \in TargetYs :
           OnPageReleased(rx, ry) /\ UNCHANGED svars
    \/ \E tool \in HeldTools : KeyToolHeld(tool) /\ UNCHANGED svars
    \/ PrevPage(TRUE) /\ UNCHANGED svars
    \/ NextPage(TRUE) /\ UNCHANGED svars
    \/ \E s \in StudentIds : SelectStudent(s, TRUE, TRUE)
    \/ \E anns \in TargetStores : SetAnnotations(anns) /\ UNCHANGED svars

SpecTarget == InitTarget /\ [][NextTarget]_vars

\* ---------------------------------------------------------------- exporter
\* bake_annotations: for garbage_level in (0, 4)
GarbageLevels == <<0, 4>>

\* What the batch meets for one student: is the source PDF a file in the exams
\* directory, can the persisted annotation record be loaded (it is valid JSON
\* with every key load_annotations reads), and can fitz open the source.
Student(has_src, record_ok, readable) ==
    [has_src |-> has_src, record_ok |-> record_ok, readable |-> readable]

StudentKinds ==
    {Student(TRUE, TRUE, TRUE), Student(FALSE, TRUE, TRUE),
     Student(TRUE, FALSE, TRUE), Student(TRUE, TRUE, FALSE)}

\* What template.format_map does with the configured filename template:
\* it returns the stem ("plain"), raises ValueError ("value_error": a lone
\* brace, a positional field), or raises another exception ("other_error":
\* "{last_name.x}" raises AttributeError, "{last_name[x]}" TypeError).
Templates == {"plain", "value_error", "other_error"}

\* A project of up to MaxStudents students is open; no export is running.
InitExport ==
    /\ BakeIdle
    /\ ViewerIdle
    /\ NoCalls
    /\ DocLoaded
    /\ SessionIdle
    /\ annotations = <<>>
    /\ current_page = 0
    /\ active_tool = TOOL_NONE
    /\ students \in UNION {[1..n -> StudentKinds] : n \in 0..MaxStudents}
    /\ debug \in BOOLEAN
    /\ template \in Templates
    /\ pc = "idle"
    /\ student_i = 0
    /\ save_k = 0
    /\ cancelled = FALSE
    /\ exported = 0
    /\ skipped = 0
    /\ outcome = [d \in 1..Len(students) |-> "none"]
    /\ attempts = [d \in 1..Len(students) |-> <<>>]

\* _export_annotated_pdfs up to its loop
ExportStart ==
    /\ pc = "idle"
    /\ students # <<>>
    /\ pc' = "head"
    /\ student_i' = 1
    /\ cancelled' = FALSE
    /\ exported' = 0
    /\ skipped' = 0
    /\ UNCHANGED <<xfixed, save_k, outcome, attempts>>
    /\ UNCHANGED <<pvars, vvars, bvars, cvars, svars>>

\* Fault: a loop that does not look at the cancellation flag.
LoopBreaksNever(c) == FALSE

\* if cancelled: break
LoopBreaks(c) == c

\* for i, student in enumerate(self._students): if cancelled: break
LoopHead ==
    /\ pc = "head"
    /\ pc' = IF student_i > Len(students) \/ LoopBreaks(cancelled)
             THEN "done" ELSE "events"
    /\ UNCHANGED <<xfixed, student_i, save_k, cancelled, exported, skipped,
                   outcome, attempts>>
    /\ UNCHANGED <<pvars, vvars, bvars, cvars, svars>>

\* QApplication.processEvents(): a click on Cancel runs on_cancel
ProcessEvents(click) ==
    /\ pc = "events"
    /\ cancelled' = (cancelled \/ click)
    /\ pc' = "src"
    /\ UNCHANGED <<xfixed, student_i, save_k, exported, skipped, outcome,
                   attempts>>
    /\ UNCHANGED <<pvars, vvars, bvars, cvars, svars>>

\* The loop goes on to the next student, this one having ended as how.
NextStudent(how) ==
    /\ outcome' = [outcome EXCEPT ![student_i] = how]
    /\ student_i' = student_i + 1
    /\ save_k' = 0
    /\ pc' = "head"

\* An exception that no handler of _export_annotated_pdfs catches leaves the
\* method: the loop is over, nothing is counted or reported for this student.
Propagates ==
    /\ pc' = "aborted"
    /\ UNCHANGED <<student_i, save_k, outcome>>

\* Fault: a skip that is not counted.
CountSkipNone(n) == n

\* skipped += 1
CountSkip(n) == n + 1

\* if not os.path.isfile(src): skipped += 1; continue
CheckSource ==
    /\ pc = "src"
    /\ IF students[student_i].has_src
       THEN /\ pc' = "load"
            /\ UNCHANGED <<student_i, save_k, skipped, outcome>>
       ELSE /\ skipped' = CountSkip(skipped)
            /\ NextStudent("skipped")
    /\ UNCHANGED <<xfixed, cancelled, exported, attempts>>
    /\ UNCHANGED <<pvars, vvars, bvars, cvars, svars>>

\* anns = data_store.load_annotations(student.student_number): json.load and
\* the item["..."] lookups raise on a malformed record, outside any try.
LoadAnnotations ==
    /\ pc = "load"
    /\ IF students[student_i].record_ok
       THEN /\ pc' = "stem"
            /\ UNCHANGED <<student_i, save_k, outcome>>
       ELSE Propagates
    /\ UNCHANGED <<xfixed, cancelled, exported, skipped, attempts>>
    /\ UNCHANGED <<pvars, vvars, bvars, cvars, svars>>

\* stem = template.format_map(..), except ValueError: the fallback stem
FormatStem ==
    /\ pc = "stem"
    /\ IF template = "other_error"
       THEN Propagates
       ELSE /\ pc' = "bake"
            /\ UNCHANGED <<student_i, save_k, outcome>>
    /\ UNCHANGED <<xfixed, cancelled, exported, skipped, attempts>>
    /\ UNCHANGED <<pvars, vvars, bvars, cvars, svars>>

\* bake_annotations, the lines logged before the document is opened: they
\* stand outside the inner try, and in debug mode a failed write of the log
\* file propagates to the caller, which shows the warning.
BakeLog(ok) ==
    /\ pc = "bake"
    /\ ~ok => debug
    /\ IF ok
       THEN /\ pc' = "open"
            /\ UNCHANGED <<student_i, save_k, outcome>>
       ELSE NextStudent("failed")
    /\ UNCHANGED <<xfixed, cancelled, exported, skipped, attempts>>
    /\ UNCHANGED <<pvars, vvars, bvars, cvars, svars>>

\* bake_annotations returns normally: exported += 1
BakeReturns ==
    /\ exported' = exported + 1
    /\ NextStudent("exported")

\* fitz.open, cover page and drawing (ok: none of them raised; fitz.open
\* raises on a source it cannot read): an exception is logged and swallowed
\* by bake_annotations.
BakeOpen(ok) ==
    /\ pc = "open"
    /\ ok => students[student_i].readable
    /\ IF ok
       THEN /\ pc' = "save"
            /\ save_k' = 1
            /\ UNCHANGED <<student_i, exported, outcome>>
       ELSE BakeReturns
    /\ UNCHANGED <<xfixed, cancelled, skipped, attempts>>
    /\ UNCHANGED <<pvars, vvars, bvars, cvars, svars>>

\* Fault: a save loop without its break.
SaveContinuesNoBreak(k, ok) == k < Len(GarbageLevels)

\* The save loop goes on to the next garbage level: no break, and one is left
SaveContinues(k, ok) == ~ok /\ k < Len(GarbageLevels)

\* One iteration of the save loop: doc.save(output_path, garbage=..) returns
\* (ok) or raises; after the loop bake_annotations logs and returns.
BakeSave(ok) ==
    /\ pc = "save"
    /\ attempts' = [attempts EXCEPT
                       ![student_i] = Append(@, <<GarbageLevels[save_k], ok>>)]
    /\ IF SaveContinues(save_k, ok)
       THEN /\ save_k' = save_k + 1
            /\ UNCHANGED <<pc, student_i, exported, outcome>>
       ELSE BakeReturns
    /\ UNCHANGED <<xfixed, cancelled, skipped>>
    /\ UNCHANGED <<pvars, vvars, bvars, cvars, svars>>

NextExport ==
    \/ ExportStart
    \/ LoopHead
    \/ \E click \in BOOLEAN : ProcessEvents(click)
    \/ CheckSource
    \/ LoadAnnotations
    \/ FormatStem
    \/ \E ok \in BOOLEAN : BakeLog(ok)
    \/ \E ok \in BOOLEAN : BakeOpen(ok)
    \/ \E ok \in BOOLEAN : BakeSave(ok)

SpecExport == InitExport /\ [][NextExport]_vars

\* ------------------------------------------------------ exporter: drawing
\* The exporter's lengths are numerators over WidthDen: Pt(n) is n points.
Pt(n) == n * WidthDen

CHECKMARK_R == 6
TILDE_AMP == 5
TILDE_WW == 18
TEXT_PAD_PT == 3
MEASURED_MIN_H == 20
STORED_MIN_W == 10
NATURAL_MIN_W == 20
BOX_MIN_H == 10

Rotations == {0, 90, 180, 270}

\* A page of the open document: page.rotation, and whether it is the cover
Page(rot, cover) == [rot |-> rot, cover |-> cover]

\* page.rect.width, page.rect.height: the page as it shows, ExportScale points
\* for each pixel of the viewer's raster
RectWidth == Pt(ExportScale * PageW)

RectHeight == Pt(ExportScale * PageH)

\* page.mediabox.width, page.mediabox.height: the page before its rotation
MediaboxWidth(rot) == IF rot \in {90, 270} THEN RectHeight ELSE RectWidth

MediaboxHeight(rot) == IF rot \in {90, 270} THEN RectWidth ELSE RectHeight

\* Fault: the branches of 90 and 270 exchanged.
to_draw_swapped(rot, mw, mh, vx, vy) == IF rot = 270 THEN <<vy, mh - vx>> ELSE IF rot = 180 THEN <<mw - vx, mh - vy>> ELSE IF rot = 90 THEN <<mw - vy, vx>> ELSE <<vx, vy>>

\* Fault: visual coordinates drawn as they are.
to_draw_identity(rot, mw, mh, vx, vy) == <<vx, vy>>

\* bake_annotations.to_draw: visual (page.rect) to draw coordinates
to_draw(rot, mw, mh, vx, vy) ==
    IF rot = 90 THEN <<vy, mh - vx>>
    ELSE IF rot = 180 THEN <<mw - vx, mh - vy>>
    ELSE IF rot = 270 THEN <<mw - vy, vx>>
    ELSE <<vx, vy>>

\* to_draw as the closure of a page with rotation rot
ToDraw(rot, v) == to_draw(rot, MediaboxWidth(rot), MediaboxHeight(rot), v[1], v[2])

\* fitz.Rect(x0, y0, x1, y1), as its two corners
Rect(x0, y0, x1, y1) == <<<<x0, y0>>, <<x1, y1>>>>

\* Fault: the box is mapped as on an unrotated page.
text_rect_unrotated(cx_v, cy_v, bw, bh, rot, mw, mh) == Rect(cx_v, cy_v, cx_v + bw, cy_v + bh)

\* _text_rect: a visual text box (top-left and size) as a draw-space Rect
text_rect(cx_v, cy_v, bw, bh, rot, mw, mh) ==
    IF rot = 0 THEN Rect(cx_v, cy_v, cx_v + bw, cy_v + bh)
    ELSE IF rot = 90 THEN Rect(cy_v, mh - cx_v - bw, cy_v + bh, mh - cx_v)
    ELSE IF rot = 180
         THEN Rect(mw - cx_v - bw, mh - cy_v - bh, mw - cx_v, mh - cy_v)
    ELSE Rect(mw - cy_v - bh, cx_v, mw - cy_v, cx_v + bw)

\* font.text_length(ln, fontsize=9) of the longest line, helv
FitzTextLength(text) == Pt(FitzAdvance)

\* The lines _measure_text_box counts: a paragraph of one word is one line
\* whatever inner_w is (a new line starts only "if cur_w > 0 and ..").
MeasuredLines(text, inner_w) == text

\* _measure_text_box(text, box_w, p, fontsize): <<box_w, box_h>>
measure_text_box(text, box_w, p) ==
    LET inner_w == Max(Pt(1), box_w - p * 2)
        total_lines == MeasuredLines(text, inner_w)
    IN  <<box_w, Max(Pt(MEASURED_MIN_H),
                     total_lines * Pt(FitzLineH) + Pt(FitzExtraH) + p * 2)>>

\* _draw_text: box_w from the stored width, or from the longest line
export_box_w(ann) ==
    IF ann.width # None
    THEN Max((ann.width * RectWidth) \div (WidthDen * PageW), Pt(STORED_MIN_W))
    ELSE Max(FitzTextLength(ann.text) + Pt(TEXT_PAD_PT) * 2, Pt(NATURAL_MIN_W))

\* _draw_text: box_h = max(measured_box_h, 10.0)
export_box_h(ann) ==
    Max(measure_text_box(ann.text, export_box_w(ann), Pt(TEXT_PAD_PT))[2],
        Pt(BOX_MIN_H))

\* The lines page.insert_textbox lays the text out in, in a rectangle w wide:
\* a word wider than the rectangle is broken over several lines.
LaidOutLines(text, w) == text * ((Pt(FitzAdvance) + w - 1) \div w)

\* page.insert_textbox(rect, text, ..) >= 0: the text fits the rectangle of
\* visual size w x h and is written; otherwise nothing is written.
InsertFits(text, w, h) ==
    LaidOutLines(text, w) * Pt(FitzLineH) + Pt(FitzExtraH) <= h

\* Fault: the complement of the page rotation.
TextRotateComplement(rot) == (360 - rot) % 360

\* text_rotate = rot
TextRotate(rot) == rot

\* ann.x * pw, ann.y * ph
VisX(x) == (x * RectWidth) \div PageW

VisY(y) == (y * RectHeight) \div PageH

\* One call of a drawing primitive on output page page for the annotation at
\* position src of the list: the visual points it was computed from, the
\* draw-space points it was given (a Rect as its two corners), and for
\* insert_textbox its rotate argument and whether the text was written.
Op(page, src, prim, vis, pts, rotate, fits) ==
    [page |-> page, src |-> src, prim |-> prim, vis |-> vis, pts |-> pts,
     rotate |-> rotate, fits |-> fits]

\* A primitive given the points vis, each passed through to_draw
Stroke(page, src, prim, rot, vis) ==
    Op(page, src, prim, vis, [k \in 1..Len(vis) |-> ToDraw(rot, vis[k])],
       None, TRUE)

\* _draw_checkmark
draw_checkmark(page, src, rot, cx_v, cy_v) ==
    LET r == Pt(CHECKMARK_R)
    IN  <<Stroke(page, src, "polyline", rot,
                 <<<<cx_v - r, cy_v>>, <<cx_v - r \div 3, cy_v + r>>,
                   <<cx_v + r, cy_v - r>>>>)>>

\* _draw_cross
draw_cross(page, src, rot, cx_v, cy_v) ==
    LET r == Pt(CHECKMARK_R)
    IN  <<Stroke(page, src, "line", rot,
                 <<<<cx_v - r, cy_v - r>>, <<cx_v + r, cy_v + r>>>>),
          Stroke(page, src, "line", rot,
                 <<<<cx_v + r, cy_v - r>>, <<cx_v - r, cy_v + r>>>>)>>

\* _draw_tilde
draw_tilde(page, src, rot, cx_v, cy_v) ==
    LET amp == Pt(TILDE_AMP)
        ww == Pt(TILDE_WW)
    IN  <<Stroke(page, src, "bezier", rot,
                 <<<<cx_v - ww, cy_v>>, <<cx_v - ww \div 2, cy_v - amp>>,
                   <<cx_v, cy_v - amp>>, <<cx_v, cy_v>>>>),
          Stroke(page, src, "bezier", rot,
                 <<<<cx_v, cy_v>>, <<cx_v, cy_v + amp>>,
                   <<cx_v + ww \div 2, cy_v + amp>>, <<cx_v + ww, cy_v>>>>)>>

\* page.insert_textbox(rect, text, .., rotate=text_rotate) in _draw_text: the
\* rectangle holds the visual box (x, y, w, h)
TextboxOp(page, src, rot, ann, x, y, w, h) ==
    Op(page, src, "textbox", <<<<x, y>>, <<x + w, y + h>>>>,
       text_rect(x, y, w, h, rot, MediaboxWidth(rot), MediaboxHeight(rot)),
       TextRotate(rot), InsertFits(ann.text, w, h))

\* _draw_text: the background rectangle, the text, and on overflow the retry
draw_text(page, src, rot, ann, cx_v, cy_v) ==
    LET p == Pt(TEXT_PAD_PT)
        box_w == export_box_w(ann)
        box_h == export_box_h(ann)
        bg == Op(page, src, "rect",
                 <<<<cx_v, cy_v>>, <<cx_v + box_w, cy_v + box_h>>>>,
                 text_rect(cx_v, cy_v, box_w, box_h, rot,
                           MediaboxWidth(rot), MediaboxHeight(rot)),
                 None, TRUE)
        first == TextboxOp(page, src, rot, ann, cx_v + p, cy_v + p,
                           Max(Pt(1), box_w - p * 2), Max(Pt(1), box_h - p * 2))
        fallback_h == measure_text_box(ann.text, box_w, p)[2]
        retry == TextboxOp(page, src, rot, ann, cx_v + p, cy_v + p,
                           Max(Pt(1), box_w - p * 2),
                           Max(Pt(1), fallback_h - p * 2))
    IN  IF first.fits THEN <<bg, first>> ELSE <<bg, first, retry>>

\* _draw_arrow: the line, and unless it is a point the head at (x2, y2)
draw_arrow(page, src, rot, v1, v2) ==
    <<Stroke(page, src, "line", rot, <<v1, v2>>)>> \o
    (IF ToDraw(rot, v1) = ToDraw(rot, v2) THEN <<>>
     ELSE <<Stroke(page, src, "arrowhead", rot, <<v2, v1>>)>>)

\* bake_annotations: the branch of one annotation of page_anns
draw_annotation(page, src, rot, ann) ==
    LET cx_v == VisX(ann.x)
        cy_v == VisY(ann.y)
        two == ann.x2 # None /\ ann.y2 # None
        v1 == <<cx_v, cy_v>>
        v2 == <<VisX(ann.x2), VisY(ann.y2)>>
    IN  IF ann.type = "checkmark" THEN draw_checkmark(page, src, rot, cx_v, cy_v)
        ELSE IF ann.type = "cross" THEN draw_cross(page, src, rot, cx_v, cy_v)
        ELSE IF ann.type = "tilde" THEN draw_tilde(page, src, rot, cx_v, cy_v)
        ELSE IF ann.type = "text" /\ ann.text # None /\ ann.text # EmptyText
             THEN draw_text(page, src, rot, ann, cx_v, cy_v)
        ELSE IF ann.type = "line" /\ two
             THEN <<Stroke(page, src, "line", rot, <<v1, v2>>)>>
        ELSE IF ann.type = "arrow" /\ two THEN draw_arrow(page, src, rot, v1, v2)
        ELSE IF ann.type = "circle" /\ two
             THEN <<Stroke(page, src, "circle", rot, <<v1, v2>>)>>
        ELSE IF ann.type = "rectcross" /\ two
             THEN <<Stroke(page, src, "line", rot, <<v1, v2>>),
                    Stroke(page, src, "line", rot,
                           <<<<v2[1], cy_v>>, <<cx_v, v2[2]>>>>)>>
        ELSE <<>>

\* for ann in page_anns (the annotations of list whose page is page), from
\* position i on
RECURSIVE PageOps(_, _, _, _)
PageOps(page, rot, list, i) ==
    IF i > Len(list) THEN <<>>
    ELSE (IF list[i].page = page
          THEN draw_annotation(page, i, rot, list[i]) ELSE <<>>)
         \o PageOps(page, rot, list, i + 1)

\* Annotations of each kind on one page, as an annotation file holds them
\* (text: one line; no width, a width narrower than its word, a wide one)
BakeShapes(page) ==
    {Annotation(page, "checkmark", 5, 15, None, None, None, None),
     Annotation(page, "cross", 10, 30, None, None, None, None),
     Annotation(page, "tilde", 5, 30, None, None, None, None),
     Annotation(page, "line", 5, 15, None, 10, 30, None),
     Annotation(page, "arrow", 10, 15, None, 5, 30, None),
     Annotation(page, "circle", 5, 15, None, 10, 15, None),
     Annotation(page, "rectcross", 0, 15, None, 15, 30, None),
     Annotation(page, "text", 5, 15, 1, None, None, None),
     Annotation(page, "text", 5, 15, 1, None, None, 30),
     Annotation(page, "text", 5, 15, 1, None, None, 100)}

\* bake_annotations has opened a source document of up to NumPages pages and
\* was given a list of up to MaxBakeAnns annotations on pages of it.
InitBake ==
    /\ ExportIdle
    /\ ViewerIdle
    /\ NoCalls
    /\ DocLoaded
    /\ SessionIdle
    /\ annotations = <<>>
    /\ current_page = 0
    /\ active_tool = TOOL_NONE
    /\ doc \in UNION {[1..n -> {Page(rot, FALSE) : rot \in Rotations}] :
                         n \in 1..NumPages}
    /\ caller_anns \in UNION {[1..n -> UNION {BakeShapes(page) :
                                                 page \in 0..(Len(doc) - 1)}] :
                                 n \in 0..MaxBakeAnns}
    /\ b_annotations = caller_anns
    /\ cover_inserted = FALSE
    /\ page_idx = 0
    /\ drawn = <<>>
    /\ bpc = "cover"

\* Fault: the page indices are not shifted.
ShiftPageNone(p) == p

\* replace(a, page=a.page + 1)
ShiftPage(p) == p + 1

\* The cover page: "if student is not None and grades is not None and scheme
\* is not None and settings is not None" (cover: all four are given), then
\* _insert_cover_page puts a page at index 0 and the local name annotations
\* is bound to a new list of shifted copies.
BakeCover(cover) ==
    /\ bpc = "cover"
    /\ IF cover
       THEN /\ doc' = <<Page(0, TRUE)>> \o doc
            /\ cover_inserted' = TRUE
            /\ b_annotations' =
                   [i \in 1..Len(b_annotations) |->
                       [b_annotations[i] EXCEPT !.page = ShiftPage(@)]]
       ELSE UNCHANGED <<doc, cover_inserted, b_annotations>>
    /\ bpc' = "pages"
    /\ UNCHANGED <<caller_anns, page_idx, drawn>>
    /\ UNCHANGED <<pvars, vvars, xvars, cvars, svars>>

\* One round of "for page_idx in range(doc.page_count)"
DrawPage ==
    /\ bpc = "pages"
    /\ page_idx < Len(doc)
    /\ drawn' = drawn \o PageOps(page_idx, doc[page_idx + 1].rot,
                                 b_annotations, 1)
    /\ page_idx' = page_idx + 1
    /\ UNCHANGED <<doc, caller_anns, b_annotations, cover_inserted, bpc>>
    /\ UNCHANGED <<pvars, vvars, xvars, cvars, svars>>

\* The page loop has ended: on to the save loop.
PagesDrawn ==
    /\ bpc = "pages"
    /\ page_idx = Len(doc)
    /\ bpc' = "save"
    /\ UNCHANGED <<doc, caller_anns, b_annotations, cover_inserted, page_idx,
                   drawn>>
    /\ UNCHANGED <<pvars, vvars, xvars, cvars, svars>>

NextBake ==
    \/ \E cover \in BOOLEAN : BakeCover(cover)
    \/ DrawPage
    \/ PagesDrawn

SpecBake == InitBake /\ [][NextBake]_vars

\* ------------------------------- an export of annotations of any page index
\* Annotations of three kinds on one page
OrphanShapes(page) ==
    {Annotation(page, "checkmark", 5, 15, None, None, None, None),
     Annotation(page, "line", 5, 15, None, 10, 30, None),
     Annotation(page, "text", 5, 15, 1, None, None, None)}

\* bake_annotations has opened a source document of up to NumPages unrotated
\* pages and was given annotations whose page indices were recorded on a
\* document of NumPages + 1 pages (the PDF in the exams directory is another
\* file now than when the student was graded).
InitOrphan ==
    /\ ExportIdle
    /\ ViewerIdle
    /\ NoCalls
    /\ DocLoaded
    /\ SessionIdle
    /\ annotations = <<>>
    /\ current_page = 0
    /\ active_tool = TOOL_NONE
    /\ doc \in UNION {[1..n -> {Page(0, FALSE)}] : n \in 1..NumPages}
    /\ caller_anns \in UNION {[1..n -> UNION {OrphanShapes(page) :
                                                 page \in 0..NumPages}] :
                                 n \in 0..MaxBakeAnns}
    /\ b_annotations = caller_anns
    /\ cover_inserted = FALSE
    /\ page_idx = 0
    /\ drawn = <<>>
    /\ bpc = "cover"

SpecOrphan == InitOrphan /\ [][NextBake]_vars

\* ------------------------------------------- _measure_text_box on its own
\* A text is given by its paragraphs (text.split("\n")), a paragraph by the
\* lengths of its words (para.split()), <<>> for an empty or blank one
Paragraphs == UNION {[1..n -> 1..MaxWordLen] : n \in 0..MaxWords}

WordTexts == UNION {[1..n -> Paragraphs] : n \in 1..MaxParas}

\* font.text_length(word + " ", fontsize): proportional to the font size,
\* FitzAdvance pt per unit of length at size 9
WordAdvance(len, fontsize) ==
    (len * fontsize * Pt(FitzAdvance)) \div TEXT_FONTSIZE

\* line_h = fontsize * (font.ascender - font.descender)
FitzLineHeight(fontsize) == (fontsize * Pt(FitzLineH)) \div TEXT_FONTSIZE

\* extra_h = fontsize * abs(font.descender)
FitzBottomExtra(fontsize) == (fontsize * Pt(FitzExtraH)) \div TEXT_FONTSIZE

\* Fault: a line is broken whenever the word does not fit, even when empty.
StartsNewLineAlways(cur_w, ww, inner_w) == cur_w + ww > inner_w

\* if cur_w > 0 and cur_w + ww > inner_w
StartsNewLine(cur_w, ww, inner_w) == cur_w > 0 /\ cur_w + ww > inner_w

\* The loop "for word in words" from word k on: n_lines at its end
RECURSIVE WordLoop(_, _, _, _, _, _)
WordLoop(words, k, cur_w, n_lines, inner_w, fontsize) ==
    IF k > Len(words) THEN n_lines
    ELSE LET ww == WordAdvance(words[k], fontsize)
         IN  IF StartsNewLine(cur_w, ww, inner_w)
             THEN WordLoop(words, k + 1, ww, n_lines + 1, inner_w, fontsize)
             ELSE WordLoop(words, k + 1, cur_w + ww, n_lines, inner_w,
                           fontsize)

\* The lines counted for one paragraph
ParagraphLines(words, inner_w, fontsize) ==
    IF words = <<>> THEN 1 ELSE WordLoop(words, 1, 0, 1, inner_w, fontsize)

\* The loop "for para in text.split" from paragraph k on: total_lines
RECURSIVE TotalLines(_, _, _, _)
TotalLines(paras, k, inner_w, fontsize) ==
    IF k > Len(paras) THEN 0
    ELSE ParagraphLines(paras[k], inner_w, fontsize)
             + TotalLines(paras, k + 1, inner_w, fontsize)

\* box_h = max(20.0, ...)
BoxHeightFloor(h) == Max(Pt(MEASURED_MIN_H), h)

\* _measure_text_box(text, box_w, p, fontsize) with the font available
measure_text_box_words(paras, box_w, p, fontsize) ==
    LET inner_w == Max(Pt(MIN_INNER_W), box_w - p * 2)
        total_lines == TotalLines(paras, 1, inner_w, fontsize)
    IN  <<box_w, BoxHeightFloor(total_lines * FitzLineHeight(fontsize)
                                + FitzBottomExtra(fontsize) + p * 2)>>

\* The box widths, paddings and font sizes of the calls
BoxWidths == {Pt(STORED_MIN_W), Pt(2 * FitzAdvance), Pt(4 * FitzAdvance)}

Paddings == {0, Pt(TEXT_PAD_PT)}

FontSizes == {TEXT_FONTSIZE - TEXT_PAD_PT, TEXT_FONTSIZE}

\* The result of a call that has not returned
Pending == <<0, 0>>

\* _measure_text_box is called with a text, a box width, a padding and a
\* font size
InitMeasure ==
    /\ BakeIdle
    /\ ExportIdle
    /\ ViewerIdle
    /\ DocLoaded
    /\ SessionIdle
    /\ annotations = <<>>
    /\ current_page = 0
    /\ active_tool = TOOL_NONE
    /\ web_store = [s \in StudentIds |-> <<>>]
    /\ web_req = NoRequest
    /\ NoFunctionCalls
    /\ measured \in [text : WordTexts, box_w : BoxWidths, p : Paddings,
                      fontsize : FontSizes, result : {Pending}]

\* The call returns
MeasureTextBox ==
    /\ measured.result = Pending
    /\ measured' = [measured EXCEPT !.result =
                        measure_text_box_words(measured.text, measured.box_w,
                                               measured.p, measured.fontsize)]
    /\ UNCHANGED <<vvars, xvars, bvars, cvars, svars, web_store, web_req,
                   fvars>>

NextMeasure == MeasureTextBox

SpecMeasure == InitMeasure /\ [][NextMeasure]_vars

\* -------------------------------------------------- the old web backend
\* The annotations the client posts: an id and a kind
WebIds == {"a", "b"}

WebAnnotations == [id : WebIds, type : {"cross", "text"}]

WebLists == UNION {[1..n -> WebAnnotations] : n \in 0..MaxWebAnns}

\* Fault: only the first annotation with the id is removed.
WithoutIdOnce(anns, id) ==
    LET hits == {i \in 1..Len(anns) : anns[i].id = id}
    IN  IF hits = {} THEN anns
        ELSE LET f == CHOOSE i \in hits : \A j \in hits : i <= j
             IN  SubSeq(anns, 1, f - 1) \o SubSeq(anns, f + 1, Len(anns))

\* updated = [a for a in annotations if a.get("id") != annotation_id]
WithoutId(anns, id) ==
    LET keeps(a) == a.id # id
    IN  SelectSeq(anns, keeps)

\* POST /annotations/{student_number}: the posted list replaces the file
PostAnnotations(s, anns) ==
    /\ web_store' = [web_store EXCEPT ![s] = anns]
    /\ web_req' = [op |-> "post", student |-> s, id |-> "none"]
    /\ UNCHANGED <<vvars, xvars, bvars, cvars, svars, measured, fvars>>

\* DELETE /annotations/{student_number}/{annotation_id}
DeleteAnnotation(s, id) ==
    /\ web_store' = [web_store EXCEPT ![s] = WithoutId(web_store[s], id)]
    /\ web_req' = [op |-> "delete", student |-> s, id |-> id]
    /\ UNCHANGED <<vvars, xvars, bvars, cvars, svars, measured, fvars>>

InitWeb == Init

NextWeb ==
    \/ \E s \in StudentIds, anns \in WebLists : PostAnnotations(s, anns)
    \/ \E s \in StudentIds, id \in WebIds \cup {"ghost"} : DeleteAnnotation(s, id)

SpecWeb == InitWeb /\ [][NextWeb]_vars

\* ----------------------------------- the two renderers on one annotation
\* annotation_overlay._draw_one: the painter calls made for one annotation
\* (which primitives, not where); the elif chain ends after "circle"
draw_one(ann) ==
    LET two == ann.x2 # None /\ ann.y2 # None
    IN  IF ann.type = "checkmark" THEN <<"line", "line">>
        ELSE IF ann.type = "cross" THEN <<"line", "line">>
        ELSE IF ann.type = "tilde" THEN <<"path">>
        ELSE IF ann.type = "text" /\ ann.text # None /\ ann.text # EmptyText
             THEN <<"fillRect", "rect", "text", "fillRect">>
        ELSE IF ann.type = "line" /\ two THEN <<"line">>
        ELSE IF ann.type = "arrow" /\ two
             THEN IF ann.x = ann.x2 /\ ann.y = ann.y2
                  THEN <<"line">> ELSE <<"line", "polygon">>
        ELSE IF ann.type = "circle" /\ two THEN <<"ellipse">>
        ELSE <<>>

\* The kinds of the tools, and the fields an annotation file may hold
RenderKinds ==
    {"checkmark", "cross", "tilde", "text", "line", "arrow", "circle",
     "rectcross"}

RenderInputs ==
    {Annotation(0, kind, 5, 15, text, x2, y2, width) :
        kind \in RenderKinds, text \in {None, EmptyText, 1},
        x2 \in {None, 10}, y2 \in {None, 30}, width \in {None, 30}}

\* A renderer's result: whether it has run, and the primitives it drew
Render(done, ops) == [done |-> done, ops |-> ops]

NotRendered == Render(FALSE, <<>>)

\* One annotation is about to be composited on screen and baked into a page
\* of some rotation.
InitRender ==
    /\ BakeIdle
    /\ ExportIdle
    /\ ViewerIdle
    /\ DocLoaded
    /\ SessionIdle
    /\ annotations = <<>>
    /\ current_page = 0
    /\ active_tool = TOOL_NONE
    /\ measured = NoCall
    /\ web_store = [s \in StudentIds |-> <<>>]
    /\ web_req = NoRequest
    /\ web_grades = NoGrades
    /\ fcall \in [fn : {"render"}, ann : RenderInputs, rot : Rotations,
                  screen : {NotRendered}, export : {NotRendered}]

\* draw_annotations -> _draw_one for the annotation
RenderOnScreen ==
    /\ fcall.fn = "render"
    /\ fcall.screen = NotRendered
    /\ fcall' = [fcall EXCEPT !.screen = Render(TRUE, draw_one(fcall.ann))]
    /\ UNCHANGED <<vvars, xvars, bvars, cvars, svars, measured, web_store,
                   web_req, web_grades>>

\* bake_annotations: the annotation's branch of the page loop
RenderOnExport ==
    /\ fcall.fn = "render"
    /\ fcall.export = NotRendered
    /\ fcall' = [fcall EXCEPT !.export =
                    Render(TRUE, draw_annotation(0, 1, fcall.rot, fcall.ann))]
    /\ UNCHANGED <<vvars, xvars, bvars, cvars, svars, measured, web_store,
                   web_req, web_grades>>

NextRender ==
    \/ RenderOnScreen
    \/ RenderOnExport

SpecRender == InitRender /\ [][NextRender]_vars

\* ------------------------------------------ output paths of a batch export
\* A replacement field "{name}" and a literal piece of a filename template
Field(name) == [field |-> TRUE, s |-> name]

Literal(s) == [field |-> FALSE, s |-> s]

\* The configured templates: the default, the names, one name, an extra
\* column of the students file, no field at all
StemTemplates ==
    {<<Field("student_number"), Literal("_annotated")>>,
     <<Field("last_name"), Literal("_"), Field("first_name")>>,
     <<Field("last_name")>>,
     <<Field("group")>>,
     <<Literal("annotated")>>}

\* fields = {k: (v if v else "EMPTY") ...}; fields.update(student_number=
\* ... or "EMPTY", ...); _EmptyDefault.__missing__ returns "EMPTY"
FieldValue(student, name) ==
    IF name \in DOMAIN student /\ student[name] # "" THEN student[name]
    ELSE "EMPTY"

\* template.format_map(_EmptyDefault(fields)): the stem as its pieces
format_map(tpl, student) ==
    [k \in 1..Len(tpl) |->
        IF tpl[k].field THEN FieldValue(student, tpl[k].s) ELSE tpl[k].s]

\* dst = os.path.join(output_dir, f"{stem}.pdf")
OutputPath(tpl, student) == format_map(tpl, student) \o <<".pdf">>

\* The rows of the students file for one student number: names that may be
\* empty or shared, the extra column "group" present or not
StudentRows(sn) ==
    {[student_number |-> sn, last_name |-> ln, first_name |-> fn] :
        ln \in {"", "Martin", "Durand"}, fn \in {"", "Ana"}}
    \cup
    {[student_number |-> sn, last_name |-> ln, first_name |-> fn,
      group |-> "A"] : ln \in {"Martin", "Durand"}, fn \in {"", "Ana"}}

\* A project of two students with different student numbers; every source
\* PDF exists and every export succeeds.
InitStems ==
    /\ BakeIdle
    /\ ExportIdle
    /\ ViewerIdle
    /\ DocLoaded
    /\ SessionIdle
    /\ annotations = <<>>
    /\ current_page = 0
    /\ active_tool = TOOL_NONE
    /\ measured = NoCall
    /\ web_store = [s \in StudentIds |-> <<>>]
    /\ web_req = NoRequest
    /\ web_grades = NoGrades
    /\ fcall \in [fn : {"export"}, template : StemTemplates,
                  students : {<<a, b>> : a \in StudentRows("1001"),
                                         b \in StudentRows("1002")},
                  written : {<<>>}]

\* One round of the loop of _export_annotated_pdfs: the stem is formatted
\* and bake_annotations saves the document at dst
ExportItem ==
    /\ fcall.fn = "export"
    /\ Len(fcall.written) < Len(fcall.students)
    /\ fcall' = [fcall EXCEPT !.written =
                    Append(@, OutputPath(fcall.template,
                                         fcall.students[Len(@) + 1]))]
    /\ UNCHANGED <<vvars, xvars, bvars, cvars, svars, measured, web_store,
                   web_req, web_grades>>

NextStems == ExportItem

SpecStems == InitStems /\ [][NextStems]_vars

\* --------------------------------------------------------- the grade formula
\* Python's round() of num / den, den > 0: to the nearest integer, a half to
\* the even neighbour
RoundHalfEven(num, den) ==
    LET q == num \div den
        r == num % den
    IN  IF 2 * r < den THEN q
        ELSE IF 2 * r > den THEN q + 1
        ELSE IF q % 2 = 0 THEN q ELSE q + 1

\* Grades are counted in halves; a rounding step is 1 (0.5) or 2 (1.0)
GradeDen == 2

RECURSIVE SumOver(_, _)
\* sum(f(k) for k in keys)
SumOver(f, keys) ==
    IF keys = {} THEN 0
    ELSE LET k == CHOOSE k \in keys : TRUE
         IN  f[k] + SumOver(f, keys \ {k})

\* models.compute_grade(total, score_total, max_note, rounding)
compute_grade(total, score_total, max_note, step) ==
    IF score_total <= 0 THEN 0
    ELSE RoundHalfEven(GradeDen * total * max_note, score_total * step) * step

\* GradingScheme.max_total()
max_total(scheme) == SumOver(scheme, DOMAIN scheme)

\* score_total = settings.score_total if it is not None else scheme_total
ScoreTotal(scheme, settings) ==
    IF settings.score_total # None THEN settings.score_total
    ELSE max_total(scheme)

\* pts = sum(sg.get(sq.name, 0) or 0 for sq in subquestions)
SchemePoints(sg, scheme) ==
    SumOver([k \in DOMAIN scheme |->
                IF k \in DOMAIN sg /\ sg[k] # None THEN sg[k] ELSE 0],
            DOMAIN scheme)

\* MainWindow._compute_student_grade(sg, subquestions): (pts, grade)
compute_student_grade(sg, scheme, settings) ==
    LET score_total == ScoreTotal(scheme, settings)
        pts == SchemePoints(sg, scheme)
    IN  IF score_total <= 0 THEN <<pts, 0>>
        ELSE <<pts, RoundHalfEven(GradeDen * pts * settings.max_note,
                                  score_total * settings.rounding)
                        * settings.rounding>>

\* _insert_cover_page: points_total = sum(v for v in student_scores.values()
\* if v is not None)
CoverPoints(sg) ==
    SumOver([k \in DOMAIN sg |-> IF sg[k] = None THEN 0 ELSE sg[k]],
            DOMAIN sg)

\* _insert_cover_page: the mark of mark_str
cover_mark(sg, scheme, settings) ==
    LET scheme_total == max_total(scheme)
        given == ScoreTotal(scheme, settings)
        score_total == IF given <= 0 THEN Max(scheme_total, 1) ELSE given
        points_total == CoverPoints(sg)
    IN  RoundHalfEven(GradeDen * points_total * settings.max_note,
                      score_total * settings.rounding) * settings.rounding

\* The grading schemes: two subquestions, or none
GradingSchemes == {[k \in {"1a", "1b"} |-> 2], [k \in {} |-> 0]}

\* The grades dicts of one student: points for subquestions of the scheme
\* and for one that the scheme no longer holds; a cleared cell is None
GradeDicts ==
    UNION {[keys -> {None, 0, 1, 2}] : keys \in SUBSET {"1a", "1b", "old"}}

\* GradingSettings: the denominator (None: the scheme's total), the maximum
\* grade and the rounding step
GradingSettingsSet ==
    [score_total : {None, 0 - 1, 0, 3, 4}, max_note : {20}, rounding : {1, 2}]

NotComputed == <<None>>

\* One student's grade is about to be computed on the cover page, by the
\* grades export and by compute_grade.
InitGrades ==
    /\ BakeIdle
    /\ ExportIdle
    /\ ViewerIdle
    /\ DocLoaded
    /\ SessionIdle
    /\ annotations = <<>>
    /\ current_page = 0
    /\ active_tool = TOOL_NONE
    /\ measured = NoCall
    /\ web_store = [s \in StudentIds |-> <<>>]
    /\ web_req = NoRequest
    /\ web_grades = NoGrades
    /\ fcall \in [fn : {"grade"}, sg : GradeDicts, scheme : GradingSchemes,
                  settings : GradingSettingsSet, cover : {NotComputed},
                  export : {NotComputed}, formula : {NotComputed}]

\* bake_annotations -> _insert_cover_page
CoverMark ==
    /\ fcall.fn = "grade"
    /\ fcall.cover = NotComputed
    /\ fcall' = [fcall EXCEPT !.cover =
                    <<cover_mark(fcall.sg, fcall.scheme, fcall.settings)>>]
    /\ UNCHANGED <<vvars, xvars, bvars, cvars, svars, measured, web_store,
                   web_req, web_grades>>

\* _export_grades -> _compute_student_grade
StudentGrade ==
    /\ fcall.fn = "grade"
    /\ fcall.export = NotComputed
    /\ fcall' = [fcall EXCEPT !.export =
                    <<compute_student_grade(fcall.sg, fcall.scheme,
                                            fcall.settings)[2]>>]
    /\ UNCHANGED <<vvars, xvars, bvars, cvars, svars, measured, web_store,
                   web_req, web_grades>>

\* compute_grade on the student's points of the scheme and the configured
\* denominator
ComputeGrade ==
    /\ fcall.fn = "grade"
    /\ fcall.formula = NotComputed
    /\ fcall' = [fcall EXCEPT !.formula =
                    <<compute_grade(SchemePoints(fcall.sg, fcall.scheme),
                                    ScoreTotal(fcall.scheme, fcall.settings),
                                    fcall.settings.max_note,
                                    fcall.settings.rounding)>>]
    /\ UNCHANGED <<vvars, xvars, bvars, cvars, svars, measured, web_store,
                   web_req, web_grades>>

NextGrades ==
    \/ CoverMark
    \/ StudentGrade
    \/ ComputeGrade

SpecGrades == InitGrades /\ [][NextGrades]_vars

\* ------------------------------------------------- _text_rect on its own
\* The visual boxes of the calls: top-left corners and sizes in 1/50 pt, the
\* sizes at and above the minimum of one point
BoxCorners == {<<0, 0>>, <<Pt(2), Pt(7)>>, <<Pt(5), Pt(1)>>, <<Pt(12), Pt(30)>>}

BoxSizes ==
    {<<Pt(1), Pt(1)>>, <<Pt(10), Pt(20)>>, <<Pt(40), Pt(20)>>,
     <<Pt(10), Pt(32)>>, <<Pt(25), Pt(10)>>, <<Pt(10), Pt(10)>>}

\* The Rect of a call that has not returned
NoResult == Rect(None, None, None, None)

\* _text_rect is called for a box on a page of some rotation
InitTextRect ==
    /\ BakeIdle
    /\ ExportIdle
    /\ ViewerIdle
    /\ DocLoaded
    /\ SessionIdle
    /\ annotations = <<>>
    /\ current_page = 0
    /\ active_tool = TOOL_NONE
    /\ measured = NoCall
    /\ web_store = [s \in StudentIds |-> <<>>]
    /\ web_req = NoRequest
    /\ web_grades = NoGrades
    /\ fcall \in [fn : {"text_rect"}, rot : Rotations, corner : BoxCorners,
                  size : BoxSizes, result : {NoResult}]

\* The call returns
TextRect ==
    /\ fcall.fn = "text_rect"
    /\ fcall.result = NoResult
    /\ fcall' = [fcall EXCEPT !.result =
                    text_rect(fcall.corner[1], fcall.corner[2],
                              fcall.size[1], fcall.size[2], fcall.rot,
                              MediaboxWidth(fcall.rot),
                              MediaboxHeight(fcall.rot))]
    /\ UNCHANGED <<vvars, xvars, bvars, cvars, svars, measured, web_store,
                   web_req, web_grades>>

NextTextRect == TextRect

SpecTextRect == InitTextRect /\ [][NextTextRect]_vars

\* ------------------------------------- POST /grades of the old web backend
\* grades.json: whether its JSON text is complete (open(path, "w") truncates
\* the file before json.dump writes it), and the dict it holds
GradesFile(complete, grades) == [complete |-> complete, grades |-> grades]

\* A GradeEntry: student_number, subquestion_name, points
GradeEntry(sn, sq, points) ==
    [student_number |-> sn, subquestion_name |-> sq, points |-> points]

\* A request being handled by post_grade on a worker thread: its entry, the
\* handler's position and its local dict
Handler(entry, at, grades) == [entry |-> entry, at |-> at, grades |-> grades]

\* if sn not in grades: grades[sn] = {}; grades[sn][sq] = points
PutGrade(grades, e) ==
    LET sn == e.student_number
        old == IF sn \in DOMAIN grades THEN grades[sn] ELSE <<>>
        new == [k \in DOMAIN old \cup {e.subquestion_name} |->
                   IF k = e.subquestion_name THEN e.points ELSE old[k]]
    IN  [s \in DOMAIN grades \cup {sn} |-> IF s = sn THEN new ELSE grades[s]]

GradeEntries ==
    {GradeEntry(sn, sq, 2) : sn \in {"1", "2"}, sq \in {"Q1", "Q2"}}

\* Two POST /grades requests have arrived; grades.json is missing or holds
\* one grade.
InitWebGrades ==
    /\ BakeIdle
    /\ ExportIdle
    /\ ViewerIdle
    /\ DocLoaded
    /\ SessionIdle
    /\ annotations = <<>>
    /\ current_page = 0
    /\ active_tool = TOOL_NONE
    /\ measured = NoCall
    /\ web_store = [s \in StudentIds |-> <<>>]
    /\ web_req = NoRequest
    /\ fcall = NoFunction
    /\ \E a, b \in GradeEntries, g \in {<<>>, PutGrade(<<>>, GradeEntry("1", "Q1", 1))} :
           web_grades = [file |-> GradesFile(TRUE, g),
                         handlers |-> <<Handler(a, "load", <<>>),
                                        Handler(b, "load", <<>>)>>]

\* The handler h goes on to position `at` with local dict `grades`
HandlerStep(h, at, grades, file) ==
    /\ web_grades' =
           [file |-> file,
            handlers |-> [web_grades.handlers EXCEPT
                             ![h] = Handler(@.entry, at, grades)]]
    /\ UNCHANGED <<vvars, xvars, bvars, cvars, svars, measured, web_store,
                   web_req, fcall>>

\* grades = load_grades(): json.load of the file, which raises on a
\* truncated text (the request ends with an error)
LoadGrades(h) ==
    /\ h \in 1..Len(web_grades.handlers)
    /\ web_grades.handlers[h].at = "load"
    /\ IF web_grades.file.complete
       THEN HandlerStep(h, "modify", web_grades.file.grades, web_grades.file)
       ELSE HandlerStep(h, "failed", <<>>, web_grades.file)

\* post_grade: the entry is put into the local dict
ModifyGrades(h) ==
    /\ h \in 1..Len(web_grades.handlers)
    /\ web_grades.handlers[h].at = "modify"
    /\ HandlerStep(h, "open", PutGrade(web_grades.handlers[h].grades,
                                       web_grades.handlers[h].entry),
                   web_grades.file)

\* save_grades: open(path, "w") truncates grades.json
SaveGradesOpen(h) ==
    /\ h \in 1..Len(web_grades.handlers)
    /\ web_grades.handlers[h].at = "open"
    /\ HandlerStep(h, "dump", web_grades.handlers[h].grades,
                   GradesFile(FALSE, <<>>))

\* save_grades: json.dump and the close of the file
SaveGradesDump(h) ==
    /\ h \in 1..Len(web_grades.handlers)
    /\ web_grades.handlers[h].at = "dump"
    /\ HandlerStep(h, "done", web_grades.handlers[h].grades,
                   GradesFile(TRUE, web_grades.handlers[h].grades))

NextWebGrades ==
    \/ \E h \in 1..2 : LoadGrades(h)
    \/ \E h \in 1..2 : ModifyGrades(h)
    \/ \E h \in 1..2 : SaveGradesOpen(h)
    \/ \E h \in 1..2 : SaveGradesDump(h)

SpecWebGrades == InitWebGrades /\ [][NextWebGrades]_vars

\* =================================================================== claims
\* ------------------------------------------------- drags (C1, C2, C4, C7)
\* The last handler was a move or the release of a drag.
DragEvent == ev.op \in {"moved", "released"} /\ dragh.kind # "none"

\* clamp01 on numerators over den
Clamp01(v, den) == IF v < 0 THEN 0 ELSE IF v > den THEN den ELSE v

InUnit(v, den) == 0 <= v /\ v <= den

OffsetKinds ==
    {"point", "line-start", "line-end", "line-move", "circle-move",
     "rectcross-move", "rectcross-tl", "rectcross-tr", "rectcross-bl",
     "rectcross-br"}

\* The handle kinds that drag each coordinate
DragsX ==
    {"point", "line-start", "line-move", "circle-move", "rectcross-move",
     "rectcross-tl", "rectcross-bl"}

DragsY ==
    {"point", "line-start", "line-move", "circle-move", "rectcross-move",
     "rectcross-tl", "rectcross-tr"}

DragsX2 ==
    {"line-end", "line-move", "circle-move", "rectcross-move",
     "rectcross-tr", "rectcross-br"}

DragsY2 ==
    {"line-end", "line-move", "circle-move", "rectcross-move",
     "rectcross-bl", "rectcross-br"}

\* C1 (no-jump drag): for the handle kinds point, line-start, line-end,
\* line-move, circle-move, rectcross-move and rectcross-tl/-tr/-bl/-br, after
\* every move event of a drag and after its release each dragged coordinate
\* equals clamp01(original + (current pointer - press pointer)), the
\* original being the coordinate at the press.
C1NoJumpDrag ==
    (DragEvent /\ dragh.kind \in OffsetKinds) =>
        LET a  == annotations[dragh.index]
            o  == dragh.ann
            dx == ev.fx - dragh.fx
            dy == ev.fy - dragh.fy
        IN  /\ dragh.kind \in DragsX => a.x = Clamp01(o.x + dx, PageW)
            /\ dragh.kind \in DragsY => a.y = Clamp01(o.y + dy, PageH)
            /\ dragh.kind \in DragsX2 => a.x2 = Clamp01(o.x2 + dx, PageW)
            /\ dragh.kind \in DragsY2 => a.y2 = Clamp01(o.y2 + dy, PageH)

\* A line's end handle, pressed off the handle itself, has been moved and
\* released somewhere else.
C1Witness ==
    /\ ev.op = "released"
    /\ dragh.kind = "line-end"
    /\ dragh.had_move
    /\ <<dragh.fx, dragh.fy>> # <<dragh.ann.x2, dragh.ann.y2>>
    /\ <<ev.fx, ev.fy>> # <<dragh.fx, dragh.fy>>

CoordsInRange(a) ==
    /\ InUnit(a.x, PageW)
    /\ InUnit(a.y, PageH)
    /\ a.x2 # None => InUnit(a.x2, PageW)
    /\ a.y2 # None => InUnit(a.y2, PageH)

\* C2 (clamping): for every handle kind, circle-edge and text-resize
\* included, and every pointer position, positions outside the page
\* included, a drag that starts from an annotation whose coordinates are in
\* [0, 1] leaves x, y, x2, y2 in [0, 1] after every move and after release,
\* and a text-resize leaves the width in [0.02, 1.0].
C2Clamping ==
    (DragEvent /\ CoordsInRange(dragh.ann)) =>
        LET a == annotations[dragh.index]
        IN  /\ CoordsInRange(a)
            /\ dragh.kind = "text-resize" =>
                   (PageW <= a.width /\ a.width <= WidthDen * PageW)

\* A drag has pushed a coordinate against the page border: the offset from
\* the press would have taken it outside.
C2Witness ==
    /\ DragEvent
    /\ CoordsInRange(dragh.ann)
    /\ dragh.kind \in DragsX2 \cap DragsY2
    /\ \/ dragh.ann.x2 + (ev.fx - dragh.fx) > PageW
       \/ dragh.ann.y2 + (ev.fy - dragh.fy) < 0

\* C3 (coordinate invariant): starting from an empty Store, after any
\* sequence of placements, drags and erasures every annotation's x and y,
\* and x2 and y2 when present, are in [0, 1].
C3CoordinateInvariant ==
    \A i \in 1..Len(annotations) : CoordsInRange(annotations[i])

\* C4 (circle handle invariant): a circle created by the two-click gesture
\* has x2 = x at all times, whatever circle-edge and circle-move drags
\* follow.
C4CircleHandle ==
    \A i \in 1..Len(annotations) :
        annotations[i].type = "circle" => annotations[i].x2 = annotations[i].x

\* A circle's edge handle has been dragged to a pointer position off the
\* centre's vertical, and the radius has changed.
C4Witness ==
    /\ ev.op = "released"
    /\ dragh.kind = "circle-edge"
    /\ dragh.had_move
    /\ ev.fx # annotations[dragh.index].x
    /\ annotations[dragh.index].y2 # dragh.ann.y2

C8CancelStep ==
    /\ ( /\ line_start # NoPoint
         /\ \/ ev'.op = "escape"
            \/ ev'.op = "key" /\ active_tool' # active_tool )
       => (annotations' = annotations /\ line_start' = NoPoint)
    /\ (line_start = NoPoint /\ line_start' # NoPoint) => ev'.op = "pressed"
    /\ ( /\ line_start = NoPoint
         /\ active_tool \in TwoPointTools
         /\ ev'.op = "pressed" )
       => (annotations' = annotations /\ line_start' = <<ev'.fx, ev'.fy>>)

C8CancelPlacement == [][C8CancelStep]_vars

\* Escape has just cancelled a pending start: the two-point tool is still
\* selected (Escape with nothing pending deselects it).
C8Witness ==
    /\ ev.op = "escape"
    /\ active_tool \in TwoPointTools
    /\ line_start = NoPoint

\* ------------------------------------------------ hit priority (C5, C6)
\* The annotations of the displayed page that pass their kind's drag test at
\* the last handler's position
DragHits ==
    {i \in 1..Len(annotations) :
        /\ annotations[i].page = current_page
        /\ DragTargetOf(annotations[i], i, ev.fx, ev.fy) # NoDrag}

\* C5 (z-order hit priority): a press with no tool selected takes as drag
\* target the annotation of greatest index among those of the current page
\* that pass their kind's hit test, with the handle that test gives, and no
\* target when none passes.  (A press that emits nothing and leaves no tool
\* selected was made with no tool selected.)
C5ZOrderHitPriority ==
    (ev.op = "pressed" /\ active_tool = TOOL_NONE /\ ev.emitted = 0) =>
        IF DragHits = {}
        THEN drag = NoDrag
        ELSE /\ drag.index \in DragHits
             /\ \A i \in DragHits : i <= drag.index
             /\ drag = DragTargetOf(annotations[drag.index], drag.index,
                                    ev.fx, ev.fy)

\* Two annotations of the displayed page pass the test and the later one is
\* the target.
C5Witness ==
    /\ ev.op = "pressed"
    /\ drag # NoDrag
    /\ DragHits = {1, 2}
    /\ drag.index = 2
    /\ annotations[1] # annotations[2]

\* The annotations of page that pass the eraser's test at (px, py)
EraserHits(anns, page, px, py) ==
    {i \in 1..Len(anns) :
        /\ anns[i].page = page
        /\ EraserHit(anns[i], px, py, PageW, PageH, ERASER_TOL)}

\* C6 (eraser removes the topmost hit): a click with the eraser removes
\* exactly one annotation, the one of greatest index among those hit, the
\* others keeping their relative order; when none is hit the Store is
\* unchanged.
C6EraserStep ==
    (active_tool = TOOL_ERASER /\ ev'.op = "pressed") =>
        LET hits == EraserHits(annotations, current_page, ev'.fx, ev'.fy)
            top  == CHOOSE i \in hits : \A j \in hits : j <= i
        IN  IF hits = {}
            THEN annotations' = annotations
            ELSE annotations' =
                     [j \in 1..(Len(annotations) - 1) |->
                         IF j < top THEN annotations[j] ELSE annotations[j + 1]]

C6EraserTopmost == [][C6EraserStep]_vars

\* ------------------------------------------------------ export (C9, C10)
Finished(d) == outcome[d] # "none"

\* C9 (two-tier save ordering): for each document the first save attempt
\* uses garbage=0; garbage=4 is attempted if and only if the first attempt
\* failed; there are at most two attempts; and a document whose first
\* attempt failed and whose second succeeded is counted as exported.
C9TwoTierSave ==
    /\ \A d \in 1..Len(students) :
        LET a == attempts[d]
        IN  /\ Len(a) <= 2
            /\ Len(a) >= 1 => a[1][1] = 0
            /\ Len(a) = 2 => (a[2][1] = 4 /\ ~a[1][2])
            /\ (Finished(d) /\ Len(a) >= 1 /\ ~a[1][2]) => Len(a) = 2
            /\ (Finished(d) /\ a = <<<<0, FALSE>>, <<4, TRUE>>>>) =>
                   outcome[d] = "exported"
    /\ exported = Cardinality({d \in 1..Len(students) :
                                  outcome[d] = "exported"})

\* A document has been saved by the second attempt, the first having failed.
C9Witness ==
    \E d \in 1..Len(students) :
        /\ Finished(d)
        /\ attempts[d] = <<<<0, FALSE>>, <<4, TRUE>>>>
        /\ outcome[d] = "exported"
        /\ exported >= 1

\* C10 (save failure is a per-item failure): a document whose two save
\* attempts both failed is reported as a failure of that document and is not
\* counted as exported (the loop goes on to the next document as after any
\* other).
C10SaveFailureReported ==
    \A d \in 1..Len(students) :
        (Finished(d) /\ attempts[d] = <<<<0, FALSE>>, <<4, FALSE>>>>) =>
            outcome[d] = "failed"

\* ------------------------------------------------ batch export (C11..C14)
\* C11 (corrupt source is a per-item failure): a document the batch has
\* finished, whose source file exists but cannot be opened, ended as a
\* reported failure: it is counted neither as exported nor as skipped.
C11CorruptSourceFails ==
    \A d \in 1..Len(students) :
        (Finished(d) /\ students[d].has_src /\ ~students[d].readable) =>
            outcome[d] = "failed"

\* The documents the loop has ended as how
Ended(how) == {d \in 1..Len(students) : outcome[d] = how}

\* C12 (missing source is a counted skip): a document ends as skipped exactly
\* when the loop has handled it and its source file is missing; skipped
\* counts these documents one each and exported counts none of them; the
\* loop has moved on past every skipped document, and a batch that ends
\* without cancellation or abort has handled every document after it; a batch
\* of three whose second source alone is missing and whose other two
\* documents export ends with exported = 2 and skipped = 1.
C12MissingSourceSkipped ==
    /\ \A d \in 1..Len(students) :
          /\ outcome[d] = "skipped" <=> (Finished(d) /\ ~students[d].has_src)
          /\ outcome[d] = "skipped" => student_i > d
          /\ (outcome[d] = "skipped" /\ pc = "done" /\ ~cancelled) =>
                \A j \in (d + 1)..Len(students) : Finished(j)
    /\ skipped = Cardinality(Ended("skipped"))
    /\ exported = Cardinality(Ended("exported"))
    /\ (pc = "done" /\ outcome = <<"exported", "skipped", "exported">>) =>
          (exported = 2 /\ skipped = 1)

\* The batch of three with the second source missing has ended.
C12Witness ==
    /\ pc = "done"
    /\ ~cancelled
    /\ Len(students) = 3
    /\ students[1].has_src /\ ~students[2].has_src /\ students[3].has_src
    /\ outcome = <<"exported", "skipped", "exported">>
    /\ exported = 2
    /\ skipped = 1

\* C13 (batch error isolation): in a batch that is not cancelled no
\* per-document error (missing or unreadable source, unreadable annotation
\* record, filename template that cannot be formatted, failed save) ends the
\* loop: the loop is never left by an exception, and when it ends it has
\* handled every document.
C13BatchErrorIsolation ==
    ~cancelled =>
        /\ pc # "aborted"
        /\ pc = "done" => \A d \in 1..Len(students) : Finished(d)

\* A step of the loop inside the handling of one document
InItem == pc \in {"events", "src", "load", "stem", "bake", "open", "save"}

\* C14 (batch cancellation between items): the request arrives while a
\* document is being handled (in processEvents) and changes nothing else;
\* with the request pending the document in progress goes on through its
\* steps, and only it can be counted or given an outcome, as it ends; at the
\* next loop head the loop ends, so no document that had not begun is
\* exported or skipped.
C14CancelStep ==
    /\ (~cancelled /\ cancelled') =>
          /\ pc = "events" /\ pc' = "src"
          /\ UNCHANGED <<student_i, exported, skipped, outcome, attempts>>
    /\ (cancelled /\ InItem) =>
          /\ pc' \in {"src", "load", "stem", "bake", "open", "save", "head",
                      "aborted"}
          /\ cancelled'
          /\ student_i' = IF pc' = "head" THEN student_i + 1 ELSE student_i
          /\ \A d \in 1..Len(students) : d # student_i => outcome'[d] = outcome[d]
          /\ exported' + skipped' <= exported + skipped + 1
          /\ <<exported', skipped'>> # <<exported, skipped>> => pc' = "head"
    /\ (cancelled /\ ~InItem) =>
          /\ pc' = "done"
          /\ UNCHANGED <<cancelled, student_i, exported, skipped, outcome,
                         attempts>>

C14CancelBetweenItems == [][C14CancelStep]_vars

\* A cancelled batch has ended: the document in progress at the request was
\* exported, the one after it was never begun.
C14Witness ==
    /\ cancelled
    /\ pc = "done"
    /\ student_i \in 2..Len(students)
    /\ outcome[student_i - 1] = "exported"
    /\ \A d \in student_i..Len(students) : ~Finished(d) /\ attempts[d] = <<>>
    /\ exported + skipped = student_i - 1

\* ---------------------------------------------- exporter drawing (C15..C20)
\* The calls of drawing primitives made for the annotation at position i
OpsOf(i) == {k \in 1..Len(drawn) : drawn[k].src = i}

\* With a cover page inserted, each primitive drawn is on the output page
\* after its annotation's page and never on the cover, and an annotation
\* whose output page the loop has passed has been drawn.
C15Drawn ==
    cover_inserted =>
        /\ \A k \in 1..Len(drawn) :
              /\ drawn[k].page = caller_anns[drawn[k].src].page + 1
              /\ ~doc[drawn[k].page + 1].cover
        /\ \A i \in 1..Len(caller_anns) :
              (caller_anns[i].page + 1 < page_idx \/ bpc = "save") =>
                  OpsOf(i) # {}

\* C15 (cover-page re-indexing): when a cover page is inserted at index 0,
\* every annotation with page p is drawn on output page p + 1 and none on the
\* cover page, and no step of the export changes the list the caller passed.
C15CoverReindexing == [](C15Drawn) /\ [][caller_anns' = caller_anns]_vars

\* An export with a cover page has drawn annotations of source pages 0 and 1
\* on output pages 1 and 2.
C15Witness ==
    /\ cover_inserted
    /\ bpc = "save"
    /\ \E i, j \in 1..Len(caller_anns) :
          /\ caller_anns[i].page = 0 /\ caller_anns[j].page = 1
          /\ \E k \in OpsOf(i) : drawn[k].page = 1
          /\ \E k \in OpsOf(j) : drawn[k].page = 2

\* The inverse map of the claim: draw coordinates back to visual ones
to_visual(rot, mw, mh, nx, ny) ==
    IF rot = 90 THEN <<mh - ny, nx>>
    ELSE IF rot = 180 THEN <<mw - nx, mh - ny>>
    ELSE IF rot = 270 THEN <<ny, mw - nx>>
    ELSE <<nx, ny>>

\* Points in range: a grid over a w x h page, its corners included
GridPoints(w, h) ==
    {<<(i * w) \div 3, (j * h) \div 3>> : i \in 0..3, j \in 0..3}

\* The visual points the primitives drawn on output page p were computed from
VisDrawn(p) ==
    UNION {{drawn[k].vis[n] : n \in 1..Len(drawn[k].vis)} :
              k \in {m \in 1..Len(drawn) : drawn[m].page = p}}

\* C16 (transform round trip): on every page of the document, for its
\* rotation and page size, to_draw sends (vx, vy) to (vx, vy), (vy, mh - vx),
\* (mw - vx, mh - vy), (mw - vy, vx) for rotations 0, 90, 180, 270, maps the
\* visual page onto the native page, and composed with the inverse map in
\* either order gives back the point it started from.
C16TransformRoundTrip ==
    \A p \in 0..(Len(doc) - 1) :
        LET rot == doc[p + 1].rot
            mw == MediaboxWidth(rot)
            mh == MediaboxHeight(rot)
        IN  /\ \A v \in GridPoints(RectWidth, RectHeight) \cup VisDrawn(p) :
                  LET n == to_draw(rot, mw, mh, v[1], v[2])
                  IN  /\ rot = 0 => n = <<v[1], v[2]>>
                      /\ rot = 90 => n = <<v[2], mh - v[1]>>
                      /\ rot = 180 => n = <<mw - v[1], mh - v[2]>>
                      /\ rot = 270 => n = <<mw - v[2], v[1]>>
                      /\ to_visual(rot, mw, mh, n[1], n[2]) = v
                      /\ v \in GridPoints(RectWidth, RectHeight) =>
                            (n[1] \in 0..mw /\ n[2] \in 0..mh)
            /\ \A q \in GridPoints(mw, mh) :
                  LET v == to_visual(rot, mw, mh, q[1], q[2])
                  IN  /\ to_draw(rot, mw, mh, v[1], v[2]) = q
                      /\ v[1] \in 0..RectWidth /\ v[2] \in 0..RectHeight

\* Primitives have been drawn on a page rotated by 90 and on one rotated by
\* 270, at draw coordinates that differ from the visual ones.
C16Witness ==
    \E k, m \in 1..Len(drawn) :
        /\ doc[drawn[k].page + 1].rot = 90
        /\ doc[drawn[m].page + 1].rot = 270
        /\ drawn[k].prim = "line" /\ drawn[k].pts # drawn[k].vis
        /\ drawn[m].prim = "line" /\ drawn[m].pts # drawn[m].vis

\* The claim's to_native for a page of rotation rot, on a visual point
to_native(rot, v) ==
    CASE rot = 0 -> v
      [] rot = 90 -> <<v[2], MediaboxHeight(rot) - v[1]>>
      [] rot = 180 -> <<MediaboxWidth(rot) - v[1], MediaboxHeight(rot) - v[2]>>
      [] rot = 270 -> <<MediaboxWidth(rot) - v[2], v[1]>>

\* Points a and b are within d of each other in both coordinates.
Near(a, b, d) ==
    /\ a[1] - b[1] <= d /\ b[1] - a[1] <= d
    /\ a[2] - b[2] <= d /\ b[2] - a[2] <= d

\* The Rect with opposite corners a and b
Span(a, b) ==
    Rect(Min(a[1], b[1]), Min(a[2], b[2]), Max(a[1], b[1]), Max(a[2], b[2]))

\* What C17 asks of one call op of a drawing primitive
AnchoredOp(op) ==
    LET rot == doc[op.page + 1].rot
        ann == b_annotations[op.src]
        v1 == <<VisX(ann.x), VisY(ann.y)>>
        v2 == <<VisX(ann.x2), VisY(ann.y2)>>
        a1 == to_native(rot, v1)
        a2 == to_native(rot, v2)
    IN  /\ ann.page = op.page
        /\ op.prim \in {"rect", "textbox"} =>
              /\ op.pts = Span(to_native(rot, op.vis[1]), to_native(rot, op.vis[2]))
              /\ op.prim = "rect" => op.vis[1] = v1
              /\ op.prim = "textbox" =>
                    op.vis[1] = <<v1[1] + Pt(TEXT_PAD_PT), v1[2] + Pt(TEXT_PAD_PT)>>
        /\ op.prim \notin {"rect", "textbox"} =>
              /\ Len(op.pts) = Len(op.vis)
              /\ \A n \in 1..Len(op.pts) : op.pts[n] = to_native(rot, op.vis[n])
        /\ ann.type \in {"checkmark", "cross"} =>
              \A n \in 1..Len(op.pts) : Near(op.pts[n], a1, Pt(CHECKMARK_R))
        /\ ann.type = "tilde" =>
              \A n \in 1..Len(op.pts) : Near(op.pts[n], a1, Pt(TILDE_WW))
        /\ ann.type \in {"line", "arrow", "circle"} =>
              op.pts = IF op.prim = "arrowhead" THEN <<a2, a1>> ELSE <<a1, a2>>
        /\ ann.type = "rectcross" =>
              \/ op.pts = <<a1, a2>>
              \/ op.pts = <<to_native(rot, <<v2[1], v1[2]>>),
                            to_native(rot, <<v1[1], v2[2]>>)>>

\* C17 (export anchors go through the transform): every point the exporter
\* gives to a drawing primitive on a page is to_native, for that page's
\* rotation, of the visual point it stands for: (x * pw, y * ph) and
\* (x2 * pw, y2 * ph) for the two-point kinds, the strokes of a marker within
\* its radius of to_native(x * pw, y * ph), a text box spanned by to_native of
\* its visual corners; without a cover page a Checkmark of page 0 is drawn on
\* output page 0, around to_native(x * pw, y * ph).
C17AnchorsTransformed ==
    /\ \A k \in 1..Len(drawn) : AnchoredOp(drawn[k])
    /\ \A i \in 1..Len(caller_anns) :
          (/\ ~cover_inserted
           /\ page_idx > 0
           /\ caller_anns[i].type = "checkmark"
           /\ caller_anns[i].page = 0) =>
              /\ OpsOf(i) # {}
              /\ \A k \in OpsOf(i) :
                    /\ drawn[k].page = 0
                    /\ drawn[k].prim = "polyline"
                    /\ \A n \in 1..3 :
                          Near(drawn[k].pts[n],
                               to_native(doc[1].rot, <<VisX(caller_anns[i].x),
                                                       VisY(caller_anns[i].y)>>),
                               Pt(CHECKMARK_R))

\* Without a cover page, a Checkmark of page 0 has been drawn on a page 0
\* rotated by 90, and a Text on a rotated page.
C17Witness ==
    /\ ~cover_inserted
    /\ \E k, m \in 1..Len(drawn) :
          /\ caller_anns[drawn[k].src].type = "checkmark"
          /\ drawn[k].page = 0
          /\ doc[1].rot = 90
          /\ drawn[m].prim = "textbox"
          /\ doc[drawn[m].page + 1].rot # 0

\* The insert_textbox calls made for the annotation at position i, in order
TextboxesOf(i) == {k \in OpsOf(i) : drawn[k].prim = "textbox"}

\* C18 (text rotation convention): every insertion of a Text annotation's
\* text, the first and the retry after an overflow alike, is made with rotate
\* equal to the rotation of the page it is drawn on.
C18TextRotation ==
    \A k \in 1..Len(drawn) :
        drawn[k].prim = "textbox" =>
            /\ drawn[k].rotate = doc[drawn[k].page + 1].rot
            /\ drawn[k].rotate \in Rotations

\* On a page rotated by 90 a Text was inserted, overflowed and was inserted
\* again; on a page rotated by 270 a Text was inserted.
C18Witness ==
    \E i, j \in 1..Len(b_annotations) :
        /\ doc[b_annotations[i].page + 1].rot = 90
        /\ doc[b_annotations[j].page + 1].rot = 270
        /\ Cardinality(TextboxesOf(i)) = 2
        /\ \E k \in TextboxesOf(i) : ~drawn[k].fits
        /\ TextboxesOf(j) # {}

\* C19 (preview/export text box agreement): for every Text annotation of the
\* list, the box _text_box_size gives at scale 1 (a raster as large as the
\* visual page, one pixel a point) has the width and the height of the box
\* the exporter draws.
C19PreviewExportAgree ==
    \A i \in 1..Len(caller_anns) :
        caller_anns[i].type = "text" =>
            LET ann == caller_anns[i]
                sz == text_box_size(ann.text, ann.width, ExportScale * PageW,
                                    ExportScale * PageH)
            IN  /\ Pt(sz[1]) = export_box_w(ann)
                /\ Pt(sz[2]) = export_box_h(ann)

\* The first and the last insert_textbox call of a non-empty set of calls
FirstOf(ks) == CHOOSE k \in ks : \A m \in ks : k <= m

LastOf(ks) == CHOOSE k \in ks : \A m \in ks : m <= k

\* C20 (measurement overflow recovery): when the first insertion of a Text
\* overflowed, the exporter inserted it once more, into a rectangle other
\* than the one that overflowed and in which the text fits; the text of every
\* Text drawn has been written by its last insertion (an overflow is
\* reported nowhere).
C20OverflowRecovery ==
    \A i \in 1..Len(b_annotations) :
        TextboxesOf(i) # {} =>
            LET first == drawn[FirstOf(TextboxesOf(i))]
                last == drawn[LastOf(TextboxesOf(i))]
            IN  /\ first.fits => Cardinality(TextboxesOf(i)) = 1
                /\ ~first.fits =>
                      /\ Cardinality(TextboxesOf(i)) = 2
                      /\ last.pts # first.pts
                /\ last.fits

\* ---------------------------------------------------------------- C21
\* C21: every raster that _render_page serves from the cache for display
\* was rasterized at the zoom and the pixel density in force when it is
\* served.
C21CacheValid ==
    served.hit =>
        /\ served.raw.zoom = served.zoom
        /\ served.raw.dpr = served.dpr

\* ---------------------------------------------------------------- C22
\* The state load_pdf leaves apart from the cache: the Store is exactly the
\* list loaded for the selected student, no drag, no pending start point, no
\* inline editor (nor edited index), page 0 displayed.
LoadedAndReset ==
    /\ annotations = load_annotations(saved[current_student])
    /\ drag = NoDrag
    /\ line_start = NoPoint
    /\ inline_editor = NoEditor
    /\ current_page = 0

CoordFields == {"x", "y", "x2", "y2", "width"}

\* The fields a drag by each handle kind may change; for the whole-shape
\* moves nothing is stated beyond page, kind and text.
DragChanges(kind) ==
    CASE kind = "line-start" -> {"x", "y"}
      [] kind = "line-end" -> {"x2", "y2"}
      [] kind = "text-resize" -> {"width"}
      [] kind = "circle-edge" -> {"x2", "y2"}
      [] kind = "rectcross-tl" -> {"x", "y"}
      [] kind = "rectcross-tr" -> {"x2", "y"}
      [] kind = "rectcross-bl" -> {"x", "y2"}
      [] kind = "rectcross-br" -> {"x2", "y2"}
      [] OTHER -> CoordFields

\* Annotation b is annotation a up to the fields the handle kind may change.
FrameOf(kind, a, b) ==
    /\ b.page = a.page
    /\ b.type = a.type
    /\ b.text = a.text
    /\ \A f \in CoordFields \ DragChanges(kind) : b[f] = a[f]

\* A move or release of a drag keeps the number and order of annotations and
\* every annotation other than the recorded one.
C23Step ==
    (drag # NoDrag /\ ev'.op \in {"moved", "released"}) =>
        /\ Len(annotations') = Len(annotations)
        /\ \A j \in 1..Len(annotations) :
               j # drag.index => annotations'[j] = annotations[j]
        /\ FrameOf(drag.kind, annotations[drag.index],
                   annotations'[drag.index])

\* C23: a drag never changes the number or order of annotations, nor any
\* annotation other than the one recorded at press, nor the dragged
\* annotation's page, kind or text; per handle kind only the stated fields
\* differ from the annotation as it was at the press (line-start x, y;
\* line-end x2, y2; text-resize width; circle-edge x2, y2; rectcross-tl
\* x, y; -tr x2, y; -bl x, y2; -br x2, y2).
C23DragFrame ==
    /\ [](DragEvent =>
             FrameOf(dragh.kind, dragh.ann, annotations[dragh.index]))
    /\ [][C23Step]_vars

\* The drag of handle `kind` has moved its annotation, next to a bystander.
C23Moved(kind) ==
    /\ DragEvent
    /\ dragh.kind = kind
    /\ dragh.had_move
    /\ annotations[dragh.index] # dragh.ann
    /\ Len(annotations) > 1

\* The top-right corner of a RectCross has been dragged and released.
C23Witness == C23Moved("rectcross-tr") /\ ev.op = "released"

\* ---------------------------------------------------------------- C24
\* The pointer (mx, my) is within the drag tolerance of the point (px, py).
NearPoint(mx, my, px, py) == HypotLe(mx - px, my - py, DRAG_TOL)

\* The endpoint handles of a line or arrow within tolerance of the pointer
NearEnds(a, mx, my) ==
    {k \in {"line-start", "line-end"} :
        \/ k = "line-start" /\ NearPoint(mx, my, a.x, a.y)
        \/ k = "line-end" /\ NearPoint(mx, my, a.x2, a.y2)}

\* The corner handles of a rectcross within tolerance of the pointer
NearCorners(a, mx, my) ==
    {k \in {"rectcross-tl", "rectcross-tr", "rectcross-bl", "rectcross-br"} :
        \/ k = "rectcross-tl" /\ NearPoint(mx, my, a.x, a.y)
        \/ k = "rectcross-tr" /\ NearPoint(mx, my, a.x2, a.y)
        \/ k = "rectcross-bl" /\ NearPoint(mx, my, a.x, a.y2)
        \/ k = "rectcross-br" /\ NearPoint(mx, my, a.x2, a.y2)}

\* The pointer is in the bottom-right handle zone of the text box.
InResizeZone(rect, mx, my) ==
    /\ RectRight(rect) - HandleSize(PageH) <= mx
    /\ mx <= RectRight(rect) + HANDLE_SLACK
    /\ RectBottom(rect) - HandleSize(PageH) <= my
    /\ my <= RectBottom(rect) + HANDLE_SLACK

\* The handle kinds the stated priority allows for annotation a under the
\* pointer: a specific handle when one is hit, otherwise the whole shape,
\* and none when the annotation is not hit.
HandlesByPriority(a, mx, my) ==
    IF a.type \in {"line", "arrow"} THEN
        IF NearEnds(a, mx, my) # {} THEN NearEnds(a, mx, my)
        ELSE IF pt_seg_dist_le(mx, my, a.x, a.y, a.x2, a.y2, DRAG_TOL)
        THEN {"line-move"}
        ELSE {}
    ELSE IF a.type = "circle" THEN
        IF NearPoint(mx, my, a.x, a.y + CircleRadius(a)) THEN {"circle-edge"}
        ELSE IF RingLe(mx - a.x, my - a.y, CircleRadius(a), DRAG_TOL)
        THEN {"circle-move"}
        ELSE {}
    ELSE IF a.type = "rectcross" THEN
        IF NearCorners(a, mx, my) # {} THEN NearCorners(a, mx, my)
        ELSE IF \/ pt_seg_dist_le(mx, my, a.x, a.y, a.x2, a.y2, DRAG_TOL)
                \/ pt_seg_dist_le(mx, my, a.x2, a.y, a.x, a.y2, DRAG_TOL)
        THEN {"rectcross-move"}
        ELSE {}
    ELSE IF a.type = "text" THEN
        LET rect == get_text_box_rect(a, PageW, PageH)
        IN  IF rect = NoRect THEN {}
            ELSE IF InResizeZone(rect, mx, my) THEN {"text-resize"}
            ELSE IF RectContains(rect, mx, my) THEN {"point"}
            ELSE {}
    ELSE IF NearPoint(mx, my, a.x, a.y) THEN {"point"}
    ELSE {}

\* C24: a press with no tool selected that takes annotation a as drag
\* target takes the handle the priority gives for a (an endpoint, the
\* circle's bottom handle, a corner or the text's resize zone before the
\* whole shape), which is a handle of a's kind; and it takes no target only
\* when the priority gives no handle for any annotation of the page.
C24HandlePriority ==
    (ev.op = "pressed" /\ active_tool = TOOL_NONE /\ ev.emitted = 0) =>
        IF drag # NoDrag
        THEN drag.kind \in HandlesByPriority(annotations[drag.index],
                                             ev.fx, ev.fy)
        ELSE \A i \in 1..Len(annotations) :
                 annotations[i].page = current_page =>
                     HandlesByPriority(annotations[i], ev.fx, ev.fy) = {}

\* The press took handle `kind` of an annotation.
C24Took(kind) == ev.op = "pressed" /\ drag.kind = kind

\* A RectCross was pressed on a diagonal, away from its four corners, and
\* is the target of a whole-shape move.
C24Witness == C24Took("rectcross-move")

\* ---------------------------------------------------------------- C25
\* C25: for the list in the Store, load_annotations after save_annotations
\* returns an equal list (same length, same order, every field equal); each
\* serialized object has the keys page, type, x, y, has text, x2, y2, width
\* exactly when that field is not None, and has no height key; and what the
\* slot of annotations_changed leaves in the student's file is that
\* serialization.
C25RoundTrip ==
    LET data == save_annotations(annotations)
    IN  /\ load_annotations(data) = annotations
        /\ Len(data) = Len(annotations)
        /\ \A i \in 1..Len(data) :
               /\ RequiredKeys \subseteq DOMAIN data[i]
               /\ \A k \in OptionalKeys :
                      k \in DOMAIN data[i] <=> annotations[i][k] # None
               /\ "height" \notin DOMAIN data[i]
               /\ \A k \in DOMAIN data[i] : data[i][k] = annotations[i][k]

\* The Store holds, in this order, a line whose end point has x2 = 0 and an
\* empty text of stored width, and has been saved to the student's file.
C25Witness ==
    /\ Len(annotations) = 2
    /\ annotations[1].type = "line" /\ annotations[1].x2 = 0
    /\ annotations[2].type = "text" /\ annotations[2].text = EmptyText
    /\ annotations[2].width # None
    /\ current_student # 0
    /\ saved[current_student] = save_annotations(annotations)

\* ---------------------------------------------------------------- C26
Kinds ==
    {"checkmark", "cross", "tilde", "text", "line", "arrow", "circle",
     "rectcross"}

\* An annotation of a listed kind whose optional fields match its kind
ValidAnnotation(a) ==
    /\ a.type \in Kinds
    /\ a.type \in TwoPointTools => a.x2 # None /\ a.y2 # None
    /\ a.type # "text" => a.text = None

\* C26: an annotation whose kind is outside the listed set, or whose
\* optional fields do not match its kind, is rejected at construction, so
\* the Store never holds one, whatever the loaded file contains.
C26InvalidRejected ==
    \A i \in 1..Len(annotations) : ValidAnnotation(annotations[i])

\* ---------------------------------------------------------------- C27
\* Greedy word wrapping of one paragraph against inner_w: the number of
\* lines when, from word k on, the current line is cur wide and a new line
\* is started exactly when the current line is non-empty and appending the
\* next word's advance would exceed inner_w.
RECURSIVE GreedyLines(_, _, _, _, _)
GreedyLines(words, k, cur, inner_w, fontsize) ==
    IF k > Len(words) THEN 1
    ELSE LET adv == WordAdvance(words[k], fontsize)
         IN  IF cur # 0 /\ cur + adv > inner_w
             THEN 1 + GreedyLines(words, k + 1, adv, inner_w, fontsize)
             ELSE GreedyLines(words, k + 1, cur + adv, inner_w, fontsize)

\* The sum over the paragraphs; an empty or blank paragraph counts one line
RECURSIVE LineCount(_, _, _, _)
LineCount(paras, k, inner_w, fontsize) ==
    IF k > Len(paras) THEN 0
    ELSE GreedyLines(paras[k], 1, 0, inner_w, fontsize)
             + LineCount(paras, k + 1, inner_w, fontsize)

\* line_count * line_height + bottom_overhang + 2 * padding for the call
FormulaHeight ==
    LineCount(measured.text, 1, measured.box_w - 2 * measured.p,
              measured.fontsize) * FitzLineHeight(measured.fontsize)
        + FitzBottomExtra(measured.fontsize) + 2 * measured.p

Returned == measured # NoCall /\ measured.result # Pending

RECURSIVE Others(_, _)
Others(anns, id) ==
    IF anns = <<>> THEN <<>>
    ELSE IF Head(anns).id = id THEN Others(Tail(anns), id)
    ELSE <<Head(anns)>> \o Others(Tail(anns), id)

\* A step that serves a DELETE leaves in the student's list exactly the
\* annotations whose id is not the given one, in their order (the list is
\* unchanged when the id is absent), and leaves the other students' lists.
C28DeleteStep ==
    web_req'.op = "delete" =>
        /\ web_store'[web_req'.student] =
               Others(web_store[web_req'.student], web_req'.id)
        /\ \A s \in StudentIds \ {web_req'.student} :
               web_store'[s] = web_store[s]
        /\ (\A i \in 1..Len(web_store[web_req'.student]) :
                web_store[web_req'.student][i].id # web_req'.id)
               => web_store' = web_store

\* C28: DELETE /annotations/{student}/{id} removes exactly the stored
\* annotations of that student whose id equals the given id and keeps all
\* others in order; deleting an absent id leaves the list unchanged; and
\* after a delete no annotation with that id is stored, so that repeating
\* the delete changes nothing.
C28DeleteById ==
    /\ [](web_req.op = "delete" =>
             Others(web_store[web_req.student], web_req.id)
                 = web_store[web_req.student])
    /\ [][C28DeleteStep]_vars

\* An id was deleted from a student's list, which still holds one annotation,
\* of another id, while another student's list is full.
C28Witness ==
    /\ web_req.op = "delete"
    /\ Len(web_store[web_req.student]) = 1
    /\ web_store[web_req.student][1].id # web_req.id
    /\ \E s \in StudentIds : Len(web_store[s]) = MaxWebAnns

\* ---------------------------------------------------------------- C29
\* C29: whenever no drag is in progress, the annotation list last persisted
\* for the current student equals the Store: every mutation a gesture made
\* has been followed by an annotations_changed emission by the time the
\* gesture has ended or has been abandoned.
C29PersistenceFollowsMutation ==
    (drag = NoDrag /\ current_student # 0) =>
        load_annotations(saved[current_student]) = annotations

\* ---------------------------------------------------------------- C30
\* The drag was released where it was pressed, with no move event between.
ClickReleased ==
    /\ ev.op = "released"
    /\ dragh.kind # "none"
    /\ ~dragh.had_move
    /\ ev.fx = dragh.fx
    /\ ev.fy = dragh.fy

\* C30: for every handle kind, a press that starts a drag followed by a
\* release at the same pointer position with no move event in between
\* leaves every field of the pressed annotation as it was at the press.
C30ClickIsNotAnEdit ==
    ClickReleased => annotations[dragh.index] = dragh.ann

\* ---------------------------------------------------------------- C31
\* The handle kinds that move a whole shape
WholeMoves == {"line-move", "circle-move", "rectcross-move"}

\* The vector from the first to the second point of a two-point annotation
ShapeVector(a) == <<a.x2 - a.x, a.y2 - a.y>>

\* C31: after any line-move, circle-move or rectcross-move drag, with the
\* pointer anywhere including at or beyond a page edge, the vector
\* (x2 - x, y2 - y) of the dragged annotation equals its value at press.
C31MovePreservesShape ==
    (DragEvent /\ dragh.kind \in WholeMoves) =>
        ShapeVector(annotations[dragh.index]) = ShapeVector(dragh.ann)

\* ---------------------------------------------------------------- C32
\* The annotation types a handle kind is found on
TypesOfHandle(kind) ==
    CASE kind \in {"line-start", "line-end", "line-move"} -> {"line", "arrow"}
      [] kind \in {"circle-edge", "circle-move"} -> {"circle"}
      [] kind = "text-resize" -> {"text"}
      [] kind = "point" -> {"checkmark", "cross", "tilde", "text"}
      [] OTHER -> {"rectcross"}

\* C32: in every state in which a drag is in progress, under any
\* interleaving of move events with tool keys, page navigation, document
\* switches and set_annotations, the recorded index is a valid index into
\* the Store and refers to the annotation that was hit at press (same kind,
\* page and text), which lies on the displayed page.
C32DragTargetValid ==
    drag # NoDrag =>
        /\ drag.index \in 1..Len(annotations)
        /\ annotations[drag.index].page = current_page
        /\ annotations[drag.index].type \in TypesOfHandle(drag.kind)
        /\ dragh.kind # "none" =>
               /\ annotations[drag.index].type = dragh.ann.type
               /\ annotations[drag.index].page = dragh.ann.page
               /\ annotations[drag.index].text = dragh.ann.text

\* ---------------------------------------------------------------- C33
\* Every raster of the page cache was rendered from the loaded document,
\* and the cache is empty when no document is loaded.
CacheOfLoadedDocument ==
    \A idx \in 0..(NumPages - 1) :
        page_cache[idx] # NoRaster =>
            /\ doc_page_count > 0
            /\ page_cache[idx].path = pdf_path
            /\ page_cache[idx].page = idx

\* A step of the deferred _prerender_adjacent (the only step that takes a
\* pending call away) with no document loaded leaves the cache as it is.
C33TaskStep ==
    (prerender_timers' < prerender_timers /\ doc_page_count = 0) =>
        page_cache' = page_cache

\* C33: under any interleaving of the deferred prefetch task with load_pdf,
\* zoom changes and page navigation, every raster in the page cache was
\* rendered from the currently loaded document, and the task inserts nothing
\* when no document is loaded.
C33PrefetchSameDocument ==
    /\ []CacheOfLoadedDocument
    /\ [][C33TaskStep]_vars

\* After a switch to the second student's document the task has put the
\* neighbour page of that document in the cache, and a call scheduled
\* earlier is still pending.
C33Witness ==
    /\ ev.op = "student"
    /\ pdf_path = 2
    /\ current_page = 0
    /\ page_cache[1] = Raster(2, 1, zoom, EffectiveDpr(hi_dpr, widget_dpr))
    /\ prerender_timers > 0

\* ---------------------------------------------------------------- C34
\* Both renderers have run on the annotation.
BothRendered ==
    /\ fcall.fn = "render"
    /\ fcall.screen.done
    /\ fcall.export.done

\* C34: for every annotation kind and field combination, the on-screen
\* compositor draws the annotation if and only if the exporter draws it.
C34SameKindsDrawn ==
    BothRendered => ((fcall.screen.ops # <<>>) <=> (fcall.export.ops # <<>>))

\* C34 for the kinds other than rectcross
C34SameKindsButRectCross ==
    (BothRendered /\ fcall.ann.type # "rectcross") =>
        ((fcall.screen.ops # <<>>) <=> (fcall.export.ops # <<>>))

\* ---------------------------------------------------------------- C35
\* The annotation has a known kind and the fields its kind requires.
Drawable(a) ==
    \/ a.type \in {"checkmark", "cross", "tilde"}
    \/ a.type = "text" /\ a.text # None /\ a.text # EmptyText
    \/ a.type \in {"line", "arrow", "circle", "rectcross"}
           /\ a.x2 # None /\ a.y2 # None

\* The output page of the annotation at position i of the caller's list
OutputPage(i) == caller_anns[i].page + (IF cover_inserted THEN 1 ELSE 0)

\* The annotation at position i was drawn once, on its output page only.
DrawnOnce(i) ==
    /\ OpsOf(i) # {}
    /\ \A k \in OpsOf(i) : drawn[k].page = OutputPage(i)
    /\ Cardinality(OpsOf(i)) =
           Len(draw_annotation(OutputPage(i), i, 0, caller_anns[i]))

\* C35: when the page loop of bake_annotations has ended, every annotation
\* of the given list that has a known kind and the fields its kind requires
\* has been drawn exactly once, on exactly one page (its page index, plus
\* one with a cover page), whatever the relation between its page index and
\* the page count of the source document.
C35NoAnnotationLost ==
    bpc = "save" =>
        \A i \in 1..Len(caller_anns) :
            Drawable(caller_anns[i]) => DrawnOnce(i)

\* C35 for the annotations whose page exists in the source document
C35NoneLostOfExistingPages ==
    bpc = "save" =>
        \A i \in 1..Len(caller_anns) :
            (Drawable(caller_anns[i]) /\ OutputPage(i) < Len(doc)) =>
                DrawnOnce(i)

\* ---------------------------------------------------------------- C36
\* The batch has exported every student.
BatchDone ==
    fcall.fn = "export" /\ Len(fcall.written) = Len(fcall.students)

\* The files in the output directory after the batch
OutputFiles == {fcall.written[k] : k \in 1..Len(fcall.written)}

\* C36: within one batch export, for every filename template, two different
\* students never resolve to the same output path, and the number of output
\* files equals the exported count.
C36DistinctOutputs ==
    BatchDone =>
        /\ \A i, j \in 1..Len(fcall.written) :
               i # j => fcall.written[i] # fcall.written[j]
        /\ Cardinality(OutputFiles) = Len(fcall.written)

\* C36 for the templates that hold the field student_number
C36DistinctWithStudentNumber ==
    (BatchDone /\ \E k \in 1..Len(fcall.template) :
                      fcall.template[k] = Field("student_number")) =>
        Cardinality(OutputFiles) = Len(fcall.written)

\* ---------------------------------------------------------------- C37
\* The three computations have returned.
GradesComputed ==
    /\ fcall.fn = "grade"
    /\ fcall.cover # NotComputed
    /\ fcall.export # NotComputed
    /\ fcall.formula # NotComputed

\* C37: for every grades dict, scheme and settings, the mark printed on the
\* cover page equals the grade computed by compute_grade and by
\* _compute_student_grade from the same inputs, including a configured
\* score_total of zero or less and grades for subquestions that are not in
\* the scheme.
C37OneGradeFormula ==
    GradesComputed =>
        /\ fcall.cover = fcall.export
        /\ fcall.cover = fcall.formula

\* The grades export and compute_grade agree on every input.
C37ExportIsFormula == GradesComputed => fcall.export = fcall.formula

\* C37 for a positive denominator and a grades dict within the scheme
C37WithinScheme ==
    (/\ GradesComputed
     /\ ScoreTotal(fcall.scheme, fcall.settings) > 0
     /\ DOMAIN fcall.sg \subseteq DOMAIN fcall.scheme) =>
        /\ fcall.cover = fcall.export
        /\ fcall.cover = fcall.formula

\* ---------------------------------------------------------------- C38
\* The axis-aligned rectangle with opposite corners a and b, normalised
Normalised(a, b) ==
    Rect(Min(a[1], b[1]), Min(a[2], b[2]), Max(a[1], b[1]), Max(a[2], b[2]))

\* _text_rect has returned
RectReturned == fcall.fn = "text_rect" /\ fcall.result # NoResult

\* C38: for every rotation in {0, 90, 180, 270} and every visual box with
\* top-left (cx, cy) and size (bw, bh), _text_rect returns the axis-aligned
\* native rectangle whose opposite corners are to_draw(cx, cy) and
\* to_draw(cx + bw, cy + bh), with x0 <= x1 and y0 <= y1; its native width
\* and height are (bw, bh) for rotations 0 and 180 and (bh, bw) for 90 and
\* 270.
C38TextRectRotation ==
    RectReturned =>
        LET rot == fcall.rot
            cx == fcall.corner[1]
            cy == fcall.corner[2]
            bw == fcall.size[1]
            bh == fcall.size[2]
            r == fcall.result
            w == r[2][1] - r[1][1]
            h == r[2][2] - r[1][2]
        IN  /\ r = Normalised(ToDraw(rot, <<cx, cy>>),
                              ToDraw(rot, <<cx + bw, cy + bh>>))
            /\ r[1][1] <= r[2][1]
            /\ r[1][2] <= r[2][2]
            /\ rot \in {0, 180} => <<w, h>> = <<bw, bh>>
            /\ rot \in {90, 270} => <<w, h>> = <<bh, bw>>

\* _text_rect has returned the Rect of a box wider than high on a page
\* rotated by 90 degrees, away from the page's corner.
C38Witness ==
    /\ RectReturned
    /\ fcall.rot = 90
    /\ fcall.size[1] > fcall.size[2]
    /\ fcall.corner # <<0, 0>>
    /\ fcall.result[2][2] - fcall.result[1][2] = fcall.size[1]

\* ---------------------------------------------------------------- C39
\* Both requests have been handled (answered, or ended with an error).
BothHandled ==
    /\ Len(web_grades.handlers) = 2
    /\ \A h \in 1..2 : web_grades.handlers[h].at \in {"done", "failed"}

\* The two requests are for different (student, subquestion) keys.
DifferentKeys ==
    LET a == web_grades.handlers[1].entry
        b == web_grades.handlers[2].entry
    IN  <<a.student_number, a.subquestion_name>>
            # <<b.student_number, b.subquestion_name>>

\* The persisted grades hold the entry's value.
Persisted(e) ==
    /\ web_grades.file.complete
    /\ e.student_number \in DOMAIN web_grades.file.grades
    /\ e.subquestion_name \in DOMAIN web_grades.file.grades[e.student_number]
    /\ web_grades.file.grades[e.student_number][e.subquestion_name] = e.points

\* C39: when two POST /grades requests for different (student, subquestion)
\* keys are handled concurrently, under every interleaving of each handler's
\* load, modify and save steps both values are present in the persisted
\* grades afterwards.
C39NoLostGradeUpdate ==
    (BothHandled /\ DifferentKeys) =>
        \A h \in 1..2 : Persisted(web_grades.handlers[h].entry)

====
